---- MODULE Spec2Model ----
(***************************************************************************)
(* The scheduling engine of task-manager (backend/scheduling.py,           *)
(* backend/rrule_utils.py and the slot handlers of backend/main.py) as a   *)
(* state machine over the record store (backend/database.py).              *)
(*                                                                         *)
(* Time is counted in ticks of 1/TicksPerHour hour from midnight of day 0, *)
(* which is a Monday: the instant "day d, h o'clock" is At(d, h).  The     *)
(* REAL columns that hold hours (estimated_hours, min_session_hours,       *)
(* duration_hours) and every duration hold ticks as well.  SQL NULL is     *)
(* the value NULL, which is outside every time and date.                   *)
(*                                                                         *)
(* A row of scheduled_slots has the columns the handlers read and write:   *)
(* besides those of the CREATE TABLE of backend/database.py, the flag      *)
(* is_fixed that create_manual_slot and update_slot_fixed set, and a       *)
(* start_datetime that delete_recurring_instance sets to NULL.             *)
(***************************************************************************)
EXTENDS Integers, Sequences, FiniteSets, TLC

VARIABLES
    tasks,            \* table tasks: task id -> row
    scheduled_slots,  \* table scheduled_slots: a set of rows, each with its id
    blocked_times,    \* table blocked_times: a set of rows
    time_allocations, \* table time_allocations: a set of rows
    calendar_settings,\* table calendar_settings: its single row
    activity_log,     \* table activity_log: the rows in insertion order
    next_slot_id,     \* the AUTOINCREMENT counter of scheduled_slots
    today,            \* date.today()
    last,             \* what the last operation was given and what it returned
    requests,         \* the handlers in flight: where each stands and its locals
    history           \* what happened that no table records

vars == <<tasks, scheduled_slots, blocked_times, time_allocations,
          calendar_settings, activity_log, next_slot_id, today, last,
          requests, history>>

----------------------------------------------------------------------------
(* Bounds of the model *)

\* scheduled_slots ids never exceed this: an operation that would insert
\* more rows is not taken.
MaxSlotId == 5

\* activity_log never holds more rows than this.
MaxLog == 2

\* the slot ids of the runs with completed and fixed sessions
MaxMarkedSlotId == 3

\* the slot ids of the runs that create time allocations
MaxPatternSlotId == 12

\* the allocation ids of the runs that create time allocations
MaxAllocationId == 2

\* the task ids of the runs that split recurring tasks
MaxTaskId == 4

\* the slot ids of the runs that split recurring tasks
MaxSplitSlotId == 7

(* Program constants *)

MAX_SESSION_HOURS == 4

HoursPerDay == 24

\* the resolution of the REAL hours and of the datetimes: half hours
TicksPerHour == 2

\* timedelta(days=365), the range of a task with no deadline
DefaultRangeDays == 365

\* "force_bump or task['priority'] >= 4"
BumpPriority == 4

NULL == -1

----------------------------------------------------------------------------
(* Dates and times *)

\* h hours, and n half hours
Hours(h) == h * TicksPerHour

HalfHours(n) == n * (TicksPerHour \div 2)

DateOf(t) == t \div Hours(HoursPerDay)

\* datetime.hour
HourOf(t) == (t % Hours(HoursPerDay)) \div TicksPerHour

At(d, h) == Hours(d * HoursPerDay + h)

\* strftime('%a').upper()[:2] as an index into MO TU WE TH FR SA SU
DayCodes == <<"MO", "TU", "WE", "TH", "FR", "SA", "SU">>

DayCode(d) == DayCodes[(d % 7) + 1]

Max(a, b) == IF a >= b THEN a ELSE b

Min(a, b) == IF a <= b THEN a ELSE b

\* the least of the first two
MinOfFirstTwo(a, b, c) == Min(a, b)

Min3(a, b, c) == Min(a, Min(b, c))

RECURSIVE SumOver(_, _)
\* the sum of f[x] over the finite set S
SumOver(S, f) ==
    IF S = {} THEN 0
    ELSE LET x == CHOOSE y \in S : TRUE IN f[x] + SumOver(S \ {x}, f)

----------------------------------------------------------------------------
(* Rows *)

\* the visible rows: not a suppression marker
\* (s.is_override = 0 OR (s.is_override = 1 AND s.start_datetime IS NOT NULL))
NotSuppressed(s) ==
    \/ ~s.is_override
    \/ (s.is_override /\ s.start_datetime # NULL)

\* CAST((julianday(end_datetime) - julianday(start_datetime)) * 24 AS REAL),
\* in ticks; NULL when either end is NULL
DurationHours(s) ==
    IF s.start_datetime = NULL \/ s.end_datetime = NULL THEN NULL
    ELSE s.end_datetime - s.start_datetime

\* the overlap test taken over closed intervals
OverlapsOrTouches(s, lo, hi) ==
    /\ s.start_datetime # NULL
    /\ s.end_datetime # NULL
    /\ ~(s.end_datetime < lo \/ s.start_datetime > hi)

\* NOT (end_datetime <= ? OR start_datetime >= ?), false on a NULL row
Overlaps(s, lo, hi) ==
    /\ s.start_datetime # NULL
    /\ s.end_datetime # NULL
    /\ ~(s.end_datetime <= lo \/ s.start_datetime >= hi)

WORK_SCHEDULES(name) ==
    IF name = "all_week" THEN {"MO", "TU", "WE", "TH", "FR", "SA", "SU"}
    ELSE {"MO", "TU", "WE", "TH", "FR"}

get_work_days(cs) ==
    IF cs.work_schedule = "custom" THEN cs.custom_days
    ELSE WORK_SCHEDULES(cs.work_schedule)

----------------------------------------------------------------------------
(* AvailabilityCalculator *)

RECURSIVE SortByStart(_)
\* all_conflicts.sort(key=lambda x: x[0]) over the (start, end) pairs
SortByStart(S) ==
    IF S = {} THEN <<>>
    ELSE LET m == CHOOSE x \in S : \A y \in S :
                      x[1] < y[1] \/ (x[1] = y[1] /\ x[2] <= y[2])
         IN <<m>> \o SortByStart(S \ {m})

RECURSIVE GapWalkFromLastEnd(_, _, _)
\* the gap walk moving current_start to the end of each conflict in turn
GapWalkFromLastEnd(conflicts, current_start, slot_end) ==
    IF conflicts = <<>>
    THEN IF current_start < slot_end THEN << <<current_start, slot_end>> >>
         ELSE <<>>
    ELSE LET c == Head(conflicts)
             gap == IF current_start < c[1] THEN << <<current_start, c[1]>> >>
                    ELSE <<>>
         IN gap \o GapWalkFromLastEnd(Tail(conflicts), c[2], slot_end)

RECURSIVE GapWalk(_, _, _)
\* the loop over all_conflicts with its running current_start, and the tail
GapWalk(conflicts, current_start, slot_end) ==
    IF conflicts = <<>>
    THEN IF current_start < slot_end THEN << <<current_start, slot_end>> >>
         ELSE <<>>
    ELSE LET c == Head(conflicts)
             gap == IF current_start < c[1] THEN << <<current_start, c[1]>> >>
                    ELSE <<>>
         IN gap \o GapWalk(Tail(conflicts), Max(current_start, c[2]), slot_end)

\* the rows of scheduled_slots (joined to tasks) and of blocked_times that
\* get_available_time_in_slot selects as conflicts of [slot_start, slot_end)
SlotConflicts(T, S, slot_start, slot_end, exclude_task_id) ==
    { <<s.start_datetime, s.end_datetime>> : s \in
        { r \in S : /\ r.task_id \in DOMAIN T
                    /\ (r.task_id # exclude_task_id \/ exclude_task_id = NULL)
                    /\ ~r.completed
                    /\ Overlaps(r, slot_start, slot_end)
                    /\ NotSuppressed(r) } }

\* a gap walk that does not look at blocked_times
BlockConflictsIgnored(slot_start, slot_end) == {}

BlockConflicts(slot_start, slot_end) ==
    { <<b.start_datetime, b.end_datetime>> : b \in
        { r \in blocked_times : Overlaps(r, slot_start, slot_end) } }

get_available_time_in_slot(T, S, slot_start, slot_end, exclude_task_id) ==
    GapWalk(SortByStart(SlotConflicts(T, S, slot_start, slot_end, exclude_task_id)
                        \cup BlockConflicts(slot_start, slot_end)),
            slot_start, slot_end)

\* the test on the weekday alone
IsWorkDay(d, cs) == DayCode(d) \in get_work_days(cs)

\* the test of generate_available_slots on one date
IsWorkWindow(d, cs) ==
    /\ DayCode(d) \in get_work_days(cs)
    /\ d \notin cs.excluded_dates

RECURSIVE generate_available_slots(_, _, _)
\* the while loop over current_date, one window per work date in date order;
\* the range is halved rather than walked so that a year's range nests a
\* few calls deep
generate_available_slots(start_date, end_date, cs) ==
    IF start_date > end_date THEN <<>>
    ELSE IF start_date = end_date
    THEN IF IsWorkWindow(start_date, cs)
         THEN << <<At(start_date, cs.work_start_time),
                   At(start_date, cs.work_end_time)>> >>
         ELSE <<>>
    ELSE LET mid == (start_date + end_date) \div 2
         IN generate_available_slots(start_date, mid, cs)
            \o generate_available_slots(mid + 1, end_date, cs)

\* start_date or date.today()
RangeStart(task) == IF task.start_date # NULL THEN task.start_date ELSE today

\* deadline or date.today() + timedelta(days=365)
RangeEnd(task) ==
    IF task.deadline # NULL THEN task.deadline ELSE today + DefaultRangeDays

----------------------------------------------------------------------------
(* SessionPacker *)

\* the dict create_task_sessions appends, before db.insert gives it an id
NewSession(task_id, range_start, session_end) ==
    [task_id |-> task_id, start_datetime |-> range_start,
     end_datetime |-> session_end, source |-> "auto", is_override |-> FALSE]

RECURSIVE PackRanges(_, _, _, _, _)
\* the inner loop of create_task_sessions over available_ranges
PackRanges(task_id, ranges, min_session_hours, sessions, remaining) ==
    IF ranges = <<>> \/ remaining <= 0
    THEN [sessions |-> sessions, remaining |-> remaining]
    ELSE LET range_start == Head(ranges)[1]
             range_end == Head(ranges)[2]
             range_duration == range_end - range_start
             session_duration == Min3(Hours(MAX_SESSION_HOURS), range_duration, remaining)
         IN IF range_duration >= min_session_hours
            THEN PackRanges(task_id, Tail(ranges), min_session_hours,
                            Append(sessions,
                                   NewSession(task_id, range_start,
                                              range_start + session_duration)),
                            remaining - session_duration)
            ELSE PackRanges(task_id, Tail(ranges), min_session_hours,
                            sessions, remaining)

RECURSIVE PackSlots(_, _, _, _, _, _, _)
\* the outer loop of create_task_sessions over available_slots
PackSlots(T, S, task_id, available_slots, min_session_hours, sessions, remaining) ==
    IF available_slots = <<>> \/ remaining <= 0
    THEN [sessions |-> sessions, remaining |-> remaining]
    ELSE LET w == Head(available_slots)
             r == PackRanges(task_id,
                             get_available_time_in_slot(T, S, w[1], w[2], task_id),
                             min_session_hours, sessions, remaining)
         IN PackSlots(T, S, task_id, Tail(available_slots), min_session_hours,
                      r.sessions, r.remaining)

\* create_task_sessions giving up after the first of the available slots
CreateSessionsInFirstSlot(T, S, task_id, estimated_hours, available_slots, min_session_hours) ==
    PackSlots(T, S, task_id,
              IF available_slots = <<>> THEN <<>> ELSE <<Head(available_slots)>>,
              min_session_hours, <<>>, estimated_hours)

\* create_task_sessions(task, available_slots, min_session_hours), the store
\* being (T, S); estimated_hours is passed apart because
\* reschedule_with_flexible_sessions overrides it in its copy of the task
create_task_sessions(T, S, task_id, estimated_hours, available_slots, min_session_hours) ==
    PackSlots(T, S, task_id, available_slots, min_session_hours, <<>>, estimated_hours)

----------------------------------------------------------------------------
(* The record store *)

\* the row db.insert('scheduled_slots', session) creates: the columns the
\* dict does not name take their defaults
InsertedRow(session, id) ==
    [id |-> id, task_id |-> session.task_id,
     start_datetime |-> session.start_datetime,
     end_datetime |-> session.end_datetime,
     source |-> session.source, is_override |-> session.is_override,
     original_start |-> NULL, is_fixed |-> FALSE, completed |-> FALSE]

\* for session in sessions: db.insert('scheduled_slots', session)
InsertAll(S, sessions, first_id) ==
    S \cup { InsertedRow(sessions[i], first_id + i - 1) : i \in 1..Len(sessions) }

----------------------------------------------------------------------------
(* What an operation reports.  Every operation leaves one such record in  *)
(* `last`; the fields an operation does not use keep these values.        *)

NoResult ==
    [op |-> "none", task_id |-> NULL, err |-> "",
     scheduled |-> FALSE, method |-> "", hours_remaining |-> 0,
     shortfall |-> 0,
     produced |-> {},            \* rows the packer inserted
     rehomed |-> {},             \* those of them that re-home an evicted task
     evicted |-> {},             \* rows deleted as bump candidates
     bumped_tasks |-> {}, rescheduled |-> {}, failed_reschedules |-> {},
     suggestions |-> <<>>,       \* slot ids suggest proposed, best first
     moved |-> NULL,             \* the slot id suggest moved
     allocation_id |-> NULL, from_date |-> NULL,
     generated |-> {},           \* rows generate inserted
     slot_id |-> NULL,
     window |-> <<>>,            \* the (start, end) has_conflict was asked about
     conflict |-> FALSE,         \* what has_conflict answered
     ranges |-> <<>>,            \* what get_available_time_in_slot returned
     batch |-> <<>>,             \* the task ids scheduleAll processed, in order
     edit |-> <<>>,              \* (new_rrule, new_duration, new_time) of an edit
     limit |-> 0,                \* max_suggestions of a suggest
     dates |-> <<>>,             \* the (start_date, end_date) windows were asked for
     windows |-> <<>>,           \* what generate_available_slots returned
     feasible |-> FALSE,         \* ["feasible"] of check_deadline_feasibility
     required_hours |-> 0, available_hours |-> 0,
     all_scheduled |-> {}, all_partial |-> {}, all_failed |-> {}]

\* the rows of S that sessions[1..] became, given the first id
RowsOf(sessions, first_id) ==
    { InsertedRow(sessions[i], first_id + i - 1) : i \in 1..Len(sessions) }

----------------------------------------------------------------------------
(* AutoScheduler *)

\* auto_schedule_task without its test of has_time_allocation
AutoScheduleAnyTask(T, S, next_id, task_id) ==
    IF task_id \notin DOMAIN T
    THEN [slots |-> S, next_id |-> next_id, err |-> "TaskNotFound",
          scheduled |-> FALSE, hours_remaining |-> 0, produced |-> {}]
    ELSE LET task == T[task_id]
             available_slots ==
                 generate_available_slots(RangeStart(task), RangeEnd(task),
                                          calendar_settings)
             r == create_task_sessions(T, S, task_id, task.estimated_hours,
                                       available_slots, task.min_session_hours)
         IN [slots |-> InsertAll(S, r.sessions, next_id),
             next_id |-> next_id + Len(r.sessions),
             err |-> "",
             scheduled |-> (r.remaining = 0),
             hours_remaining |-> r.remaining,
             produced |-> RowsOf(r.sessions, next_id)]

\* auto_schedule_task(task_id) on the store (T, S, next_id): the new store
\* and the returned dict, or the SchedulingError raised
auto_schedule_task(T, S, next_id, task_id) ==
    IF task_id \notin DOMAIN T
    THEN [slots |-> S, next_id |-> next_id, err |-> "TaskNotFound",
          scheduled |-> FALSE, hours_remaining |-> 0, produced |-> {}]
    ELSE IF T[task_id].has_time_allocation
    THEN [slots |-> S, next_id |-> next_id, err |-> "HasAllocation",
          scheduled |-> FALSE, hours_remaining |-> 0, produced |-> {}]
    ELSE LET task == T[task_id]
             available_slots ==
                 generate_available_slots(RangeStart(task), RangeEnd(task),
                                          calendar_settings)
             r == create_task_sessions(T, S, task_id, task.estimated_hours,
                                       available_slots, task.min_session_hours)
         IN [slots |-> InsertAll(S, r.sessions, next_id),
             next_id |-> next_id + Len(r.sessions),
             err |-> "",
             scheduled |-> (r.remaining = 0),
             hours_remaining |-> r.remaining,
             produced |-> RowsOf(r.sessions, next_id)]

\* the WHERE clause without its NOT EXISTS (SELECT 1 FROM scheduled_slots ...)
NeedsSchedulingWhateverIsPlanned(T, S, task_id) ==
    /\ ~T[task_id].has_time_allocation
    /\ T[task_id].is_reschedulable
    /\ T[task_id].status # "completed"
    /\ ~T[task_id].archived

\* the WHERE clause of auto_schedule_all_tasks
NeedsScheduling(T, S, task_id) ==
    /\ ~T[task_id].has_time_allocation
    /\ T[task_id].is_reschedulable
    /\ T[task_id].status # "completed"
    /\ ~T[task_id].archived
    /\ ~\E s \in S : s.task_id = task_id

\* ORDER BY t.deadline ASC, t.priority ASC
ScheduleBeforeLowPriorityFirst(T, a, b) ==
    \/ T[a].deadline < T[b].deadline
    \/ /\ T[a].deadline = T[b].deadline
       /\ \/ T[a].priority < T[b].priority
          \/ (T[a].priority = T[b].priority /\ a <= b)

\* ORDER BY t.deadline ASC, t.priority DESC; a NULL deadline sorts first;
\* rows equal in both come in rowid order
ScheduleBefore(T, a, b) ==
    \/ T[a].deadline < T[b].deadline
    \/ /\ T[a].deadline = T[b].deadline
       /\ \/ T[a].priority > T[b].priority
          \/ (T[a].priority = T[b].priority /\ a <= b)

RECURSIVE SortTasks(_, _)
SortTasks(T, ids) ==
    IF ids = {} THEN <<>>
    ELSE LET m == CHOOSE x \in ids : \A y \in ids : ScheduleBefore(T, x, y)
         IN <<m>> \o SortTasks(T, ids \ {m})

RECURSIVE ScheduleEachBySessions(_, _, _, _, _)
\* the loop "for task in tasks" with the test "result['session_count']" for
\* "result['scheduled']"
ScheduleEachBySessions(T, ids, acc, S, next_id) ==
    IF ids = <<>>
    THEN [slots |-> S, next_id |-> next_id, scheduled |-> acc.scheduled,
          partial |-> acc.partial, failed |-> acc.failed, produced |-> acc.produced]
    ELSE LET r == auto_schedule_task(T, S, next_id, Head(ids))
         IN IF r.err # ""
            THEN ScheduleEachBySessions(T, Tail(ids),
                              [acc EXCEPT !.failed = @ \cup {Head(ids)}], S, next_id)
            ELSE IF r.produced # {}
            THEN ScheduleEachBySessions(T, Tail(ids),
                              [acc EXCEPT !.scheduled = @ \cup {Head(ids)},
                                          !.produced = @ \cup r.produced],
                              r.slots, r.next_id)
            ELSE ScheduleEachBySessions(T, Tail(ids),
                              [acc EXCEPT !.partial = @ \cup {Head(ids)},
                                          !.produced = @ \cup r.produced],
                              r.slots, r.next_id)

RECURSIVE ScheduleEach(_, _, _, _, _)
\* the loop "for task in tasks" of auto_schedule_all_tasks; acc carries the
\* three result lists
ScheduleEach(T, ids, acc, S, next_id) ==
    IF ids = <<>>
    THEN [slots |-> S, next_id |-> next_id, scheduled |-> acc.scheduled,
          partial |-> acc.partial, failed |-> acc.failed, produced |-> acc.produced]
    ELSE LET r == auto_schedule_task(T, S, next_id, Head(ids))
         IN IF r.err # ""
            THEN ScheduleEach(T, Tail(ids),
                              [acc EXCEPT !.failed = @ \cup {Head(ids)}], S, next_id)
            ELSE IF r.scheduled
            THEN ScheduleEach(T, Tail(ids),
                              [acc EXCEPT !.scheduled = @ \cup {Head(ids)},
                                          !.produced = @ \cup r.produced],
                              r.slots, r.next_id)
            ELSE ScheduleEach(T, Tail(ids),
                              [acc EXCEPT !.partial = @ \cup {Head(ids)},
                                          !.produced = @ \cup r.produced],
                              r.slots, r.next_id)

\* auto_schedule_all_tasks() on the store (T, S, next_id)
auto_schedule_all_tasks(T, S, next_id) ==
    LET selected == SortTasks(T, { t \in DOMAIN T : NeedsScheduling(T, S, t) })
        r == ScheduleEach(T, selected,
                          [scheduled |-> {}, partial |-> {}, failed |-> {},
                           produced |-> {}],
                          S, next_id)
    IN [slots |-> r.slots, next_id |-> r.next_id, batch |-> selected,
        scheduled |-> r.scheduled, partial |-> r.partial, failed |-> r.failed,
        produced |-> r.produced]

----------------------------------------------------------------------------
(* BumpingResolver *)

\* ORDER BY t.priority ASC, t.deadline DESC, s.start_datetime DESC
BumpBeforeLatestFirst(T, a, b) ==
    LET ta == T[a.task_id]
        tb == T[b.task_id]
    IN \/ ta.priority < tb.priority
       \/ /\ ta.priority = tb.priority
          /\ \/ ta.deadline > tb.deadline
             \/ /\ ta.deadline = tb.deadline
                /\ \/ a.start_datetime > b.start_datetime
                   \/ /\ a.start_datetime = b.start_datetime
                      /\ a.id <= b.id

\* ORDER BY t.priority ASC, t.deadline DESC, s.start_datetime ASC; a NULL
\* deadline sorts as the smallest value; rows equal in all three come in
\* rowid order
BumpBefore(T, a, b) ==
    LET ta == T[a.task_id]
        tb == T[b.task_id]
    IN \/ ta.priority < tb.priority
       \/ /\ ta.priority = tb.priority
          /\ \/ ta.deadline > tb.deadline
             \/ /\ ta.deadline = tb.deadline
                /\ \/ a.start_datetime < b.start_datetime
                   \/ /\ a.start_datetime = b.start_datetime
                      /\ a.id <= b.id

RECURSIVE SortCandidates(_, _)
SortCandidates(T, C) ==
    IF C = {} THEN <<>>
    ELSE LET m == CHOOSE x \in C : \A y \in C : BumpBefore(T, x, y)
         IN <<m>> \o SortCandidates(T, C \ {m})

\* find_bumpable_slots with "t.priority <= ?" for "t.priority < ?"
IsBumpableAtEqualPriority(T, s, new_priority, start_date, deadline) ==
    /\ s.task_id \in DOMAIN T
    /\ T[s.task_id].priority <= new_priority
    /\ T[s.task_id].is_reschedulable
    /\ T[s.task_id].status # "completed"
    /\ s.start_datetime # NULL
    /\ DateOf(s.start_datetime) >= start_date
    /\ DateOf(s.start_datetime) <= deadline
    /\ NotSuppressed(s)

\* the WHERE clause of find_bumpable_slots
IsBumpable(T, s, new_priority, start_date, deadline) ==
    /\ s.task_id \in DOMAIN T
    /\ T[s.task_id].priority < new_priority
    /\ T[s.task_id].is_reschedulable
    /\ T[s.task_id].status # "completed"
    /\ s.start_datetime # NULL
    /\ DateOf(s.start_datetime) >= start_date
    /\ DateOf(s.start_datetime) <= deadline
    /\ NotSuppressed(s)

find_bumpable_slots(T, S, new_priority, start_date, deadline) ==
    SortCandidates(T, { s \in S : IsBumpable(T, s, new_priority, start_date, deadline) })

RECURSIVE SelectAllToBump(_, _, _, _)
\* the loop that fills to_bump with the test "accumulated_hours >= remaining"
\* also accepting what the whole list adds up to
SelectAllToBump(candidates, remaining, to_bump, accumulated_hours) ==
    IF candidates = <<>>
    THEN [to_bump |-> to_bump,
          accumulated_hours |-> Max(accumulated_hours, remaining)]
    ELSE LET c == Head(candidates)
             acc == accumulated_hours + DurationHours(c)
         IN IF acc >= remaining
            THEN [to_bump |-> Append(to_bump, c), accumulated_hours |-> acc]
            ELSE SelectAllToBump(Tail(candidates), remaining, Append(to_bump, c), acc)

RECURSIVE SelectToBump(_, _, _, _)
\* the loop that fills to_bump: candidates in order until accumulated_hours
\* reaches remaining
SelectToBump(candidates, remaining, to_bump, accumulated_hours) ==
    IF candidates = <<>>
    THEN [to_bump |-> to_bump, accumulated_hours |-> accumulated_hours]
    ELSE LET c == Head(candidates)
             acc == accumulated_hours + DurationHours(c)
         IN IF acc >= remaining
            THEN [to_bump |-> Append(to_bump, c), accumulated_hours |-> acc]
            ELSE SelectToBump(Tail(candidates), remaining, Append(to_bump, c), acc)

\* SELECT SUM(duration) FROM scheduled_slots WHERE task_id = ?  (or 0):
\* rows with a NULL duration do not count
AlreadyScheduled(S, task_id) ==
    LET rows == { s \in S : s.task_id = task_id /\ DurationHours(s) # NULL }
    IN SumOver(rows, [s \in rows |-> DurationHours(s)])

\* reschedule_with_flexible_sessions(task_id, remaining_hours, min_session_hours)
reschedule_with_flexible_sessions(T, S, next_id, task_id, remaining_hours, min_session_hours) ==
    IF task_id \notin DOMAIN T
    THEN [slots |-> S, next_id |-> next_id, err |-> "TaskNotFound", produced |-> {}]
    ELSE LET task == T[task_id]
             available_slots ==
                 generate_available_slots(RangeStart(task), RangeEnd(task),
                                          calendar_settings)
             r == create_task_sessions(T, S, task_id, remaining_hours,
                                       available_slots, min_session_hours)
         IN IF r.remaining > 0
            THEN [slots |-> S, next_id |-> next_id, err |-> "CouldNotReschedule",
                  produced |-> {}]
            ELSE [slots |-> InsertAll(S, r.sessions, next_id),
                  next_id |-> next_id + Len(r.sessions), err |-> "",
                  produced |-> RowsOf(r.sessions, next_id)]

RECURSIVE SetToSeq(_)
\* for bumped_task_id in bumped_task_ids: a set of small ints iterates in
\* ascending order
SetToSeq(ids) ==
    IF ids = {} THEN <<>>
    ELSE LET m == CHOOSE x \in ids : \A y \in ids : x <= y
         IN <<m>> \o SetToSeq(ids \ {m})

RECURSIVE RehomeBumped(_, _, _, _, _)
\* the loop "Try to reschedule bumped tasks"; acc carries the store and the
\* rescheduled / failures collections
RehomeBumped(T, ids, acc, S, next_id) ==
    IF ids = <<>>
    THEN [slots |-> S, next_id |-> next_id, rescheduled |-> acc.rescheduled,
          failures |-> acc.failures, produced |-> acc.produced]
    ELSE LET bumped_task_id == Head(ids)
             bumped_task == T[bumped_task_id]
             task_remaining ==
                 bumped_task.estimated_hours - AlreadyScheduled(S, bumped_task_id)
             r == reschedule_with_flexible_sessions(
                      T, S, next_id, bumped_task_id, task_remaining,
                      bumped_task.min_session_hours)
         IN IF task_remaining <= 0
            THEN RehomeBumped(T, Tail(ids), acc, S, next_id)
            ELSE IF r.err = ""
            THEN RehomeBumped(T, Tail(ids),
                     [acc EXCEPT !.rescheduled = @ \cup {bumped_task_id},
                                 !.produced = @ \cup r.produced],
                     r.slots, r.next_id)
            ELSE RehomeBumped(T, Tail(ids),
                     [acc EXCEPT !.failures = @ \cup {bumped_task_id}],
                     S, next_id)

SeqRange(q) == { q[i] : i \in 1..Len(q) }

\* attempt_with_bumping(task_id) on the store (T, S, next_id): the new store,
\* the audit rows written and the returned dict or the SchedulingError raised
attempt_with_bumping(T, S, next_id, task_id) ==
    LET base == [NoResult EXCEPT !.op = "scheduleWithBumping",
                                 !.task_id = task_id]
    IN
    IF task_id \notin DOMAIN T
    THEN [slots |-> S, next_id |-> next_id, audit |-> <<>>,
          res |-> [base EXCEPT !.err = "TaskNotFound"]]
    ELSE
    LET task == T[task_id]
        start_date == RangeStart(task)
        end_date == RangeEnd(task)
        available_slots == generate_available_slots(start_date, end_date,
                                                    calendar_settings)
        first == create_task_sessions(T, S, task_id, task.estimated_hours,
                                      available_slots, task.min_session_hours)
        remaining == first.remaining
        candidates == find_bumpable_slots(T, S, task.priority, start_date, end_date)
        sel == SelectToBump(candidates, remaining, <<>>, 0)
        to_bump == SeqRange(sel.to_bump)
        bumped_task_ids == { c.task_id : c \in to_bump }
        S1 == S \ to_bump
        second == create_task_sessions(T, S1, task_id, task.estimated_hours,
                                       available_slots, task.min_session_hours)
        S2 == InsertAll(S1, second.sessions, next_id)
        id2 == next_id + Len(second.sessions)
        re == RehomeBumped(T, SetToSeq(bumped_task_ids),
                           [rescheduled |-> {}, failures |-> {}, produced |-> {}],
                           S2, id2)
    IN
    IF remaining = 0
    THEN [slots |-> InsertAll(S, first.sessions, next_id),
          next_id |-> next_id + Len(first.sessions), audit |-> <<>>,
          res |-> [base EXCEPT !.scheduled = TRUE, !.method = "normal",
                               !.produced = RowsOf(first.sessions, next_id)]]
    ELSE IF candidates = <<>>
    THEN [slots |-> S, next_id |-> next_id, audit |-> <<>>,
          res |-> [base EXCEPT !.err = "NoBumpableCapacity",
                               !.shortfall = remaining]]
    ELSE IF sel.accumulated_hours < remaining
    THEN [slots |-> S, next_id |-> next_id, audit |-> <<>>,
          res |-> [base EXCEPT !.err = "NoBumpableCapacity",
                               !.shortfall = remaining]]
    ELSE IF second.remaining > 0
    THEN [slots |-> S1, next_id |-> next_id, audit |-> <<>>,
          res |-> [base EXCEPT !.err = "PostBumpRepackFailure",
                               !.shortfall = remaining,
                               !.evicted = to_bump,
                               !.bumped_tasks = bumped_task_ids,
                               !.hours_remaining = second.remaining]]
    ELSE [slots |-> re.slots, next_id |-> re.next_id,
          audit |-> << [action |-> "bump_tasks", entity_type |-> "task",
                        entity_id |-> task_id,
                        bumped |-> bumped_task_ids,
                        rescheduled |-> re.rescheduled,
                        failed |-> re.failures] >>,
          res |-> [base EXCEPT !.scheduled = TRUE, !.method = "with_bumping",
                               !.shortfall = remaining,
                               !.evicted = to_bump,
                               !.bumped_tasks = bumped_task_ids,
                               !.rescheduled = re.rescheduled,
                               !.failed_reschedules = re.failures,
                               !.produced = RowsOf(second.sessions, next_id)
                                            \cup re.produced,
                               !.rehomed = re.produced]]

----------------------------------------------------------------------------
(* ConflictDetector *)

\* has_conflict(start_datetime, end_datetime, exclude_task_id, exclude_slot_id)
\* ["has_conflict"]; an exclusion that is None (or 0) is not applied
has_conflict(T, S, start_datetime, end_datetime, exclude_task_id, exclude_slot_id) ==
    LET slot_conflicts ==
            { s \in S : /\ s.task_id \in DOMAIN T
                        /\ (exclude_slot_id = NULL \/ s.id # exclude_slot_id)
                        /\ (exclude_task_id = NULL \/ s.task_id # exclude_task_id)
                        /\ ~s.completed
                        /\ Overlaps(s, start_datetime, end_datetime)
                        /\ NotSuppressed(s) }
        block_conflicts ==
            { b \in blocked_times : Overlaps(b, start_datetime, end_datetime) }
    IN slot_conflicts # {} \/ block_conflicts # {}

----------------------------------------------------------------------------
(* FeasibilityChecker *)

\* the free time of the first window only
TotalAvailableInFirstSlot(T, S, available_slots, task_id) ==
    IF available_slots = <<>> THEN 0
    ELSE LET slot == Head(available_slots)
             ranges == get_available_time_in_slot(T, S, slot[1], slot[2], task_id)
         IN SumOver(DOMAIN ranges, [i \in DOMAIN ranges |-> ranges[i][2] - ranges[i][1]])

RECURSIVE TotalAvailable(_, _, _, _)
\* the loops of check_deadline_feasibility that add up the free ranges of
\* the windows
TotalAvailable(T, S, available_slots, task_id) ==
    IF available_slots = <<>> THEN 0
    ELSE LET slot == Head(available_slots)
             ranges == get_available_time_in_slot(T, S, slot[1], slot[2], task_id)
         IN SumOver(DOMAIN ranges, [i \in DOMAIN ranges |-> ranges[i][2] - ranges[i][1]])
            + TotalAvailable(T, S, Tail(available_slots), task_id)

\* check_deadline_feasibility counting the free ranges with no task left out
FeasibilityAgainstOwnSessions(T, S, task_id) ==
    LET task == T[task_id]
        available_slots == generate_available_slots(RangeStart(task), RangeEnd(task),
                                                    calendar_settings)
        total_available == TotalAvailable(T, S, available_slots, NULL)
    IN [feasible |-> total_available >= task.estimated_hours,
        required_hours |-> task.estimated_hours,
        available_hours |-> total_available,
        shortfall |-> Max(0, task.estimated_hours - total_available)]

\* check_deadline_feasibility(task) for the row of task_id
check_deadline_feasibility(T, S, task_id) ==
    LET task == T[task_id]
        available_slots == generate_available_slots(RangeStart(task), RangeEnd(task),
                                                    calendar_settings)
        total_available == TotalAvailable(T, S, available_slots, task_id)
    IN [feasible |-> total_available >= task.estimated_hours,
        required_hours |-> task.estimated_hours,
        available_hours |-> total_available,
        shortfall |-> Max(0, task.estimated_hours - total_available)]

----------------------------------------------------------------------------
(* ReallocationAdvisor *)

\* julianday(t.deadline) - julianday('now') <= k, for a deadline at midnight
\* and 'now' within `today`: the whole days from today to the deadline
DaysUntilDeadline(task) == task.deadline - today

\* calculate_benefit_score(candidate): candidate['original_start'] is the
\* column alias of the row's current start_datetime
calculate_benefit_score(T, s) ==
    LET task == T[s.task_id]
        urgency == IF task.deadline = NULL THEN 0
                   ELSE IF DaysUntilDeadline(task) <= 1 THEN 30
                   ELSE IF DaysUntilDeadline(task) <= 3 THEN 20
                   ELSE IF DaysUntilDeadline(task) <= 7 THEN 10
                   ELSE 0
        evening == IF HourOf(s.start_datetime) >= 17 THEN 10 ELSE 0
    IN task.priority * 10 + urgency + evening

\* the WHERE clause of the candidate query of reallocate_to_available_time
IsMovable(T, s, available_start, available_duration) ==
    /\ s.task_id \in DOMAIN T
    /\ s.start_datetime # NULL
    /\ s.start_datetime > available_start
    /\ T[s.task_id].is_reschedulable
    /\ T[s.task_id].status # "completed"
    /\ DurationHours(s) # NULL
    /\ DurationHours(s) <= available_duration
    /\ NotSuppressed(s)

\* ORDER BY t.priority DESC, days_until_deadline ASC, s.start_datetime ASC;
\* a NULL deadline sorts first; rows equal in all three come in rowid order
MoveBefore(T, a, b) ==
    LET ta == T[a.task_id]
        tb == T[b.task_id]
    IN \/ ta.priority > tb.priority
       \/ /\ ta.priority = tb.priority
          /\ \/ ta.deadline < tb.deadline
             \/ /\ ta.deadline = tb.deadline
                /\ \/ a.start_datetime < b.start_datetime
                   \/ /\ a.start_datetime = b.start_datetime
                      /\ a.id <= b.id

RECURSIVE SortMovable(_, _)
SortMovable(T, C) ==
    IF C = {} THEN <<>>
    ELSE LET m == CHOOSE x \in C : \A y \in C : MoveBefore(T, x, y)
         IN <<m>> \o SortMovable(T, C \ {m})

\* q[:n]
Take(q, n) == IF Len(q) <= n THEN q ELSE SubSeq(q, 1, n)

\* the loop "Check which fit without conflicts"
IsViable(T, S, s, available_start, available_end) ==
    LET new_end == available_start + DurationHours(s)
    IN /\ new_end <= available_end
       /\ ~has_conflict(T, S, available_start, new_end, NULL, s.id)

RECURSIVE Filter(_, _, _, _, _)
Filter(T, S, q, available_start, available_end) ==
    IF q = <<>> THEN <<>>
    ELSE (IF IsViable(T, S, Head(q), available_start, available_end)
          THEN <<Head(q)>> ELSE <<>>)
         \o Filter(T, S, Tail(q), available_start, available_end)

RECURSIVE SortByBenefit(_, _)
\* viable.sort(key=benefit_score, reverse=True): a stable sort, so equal
\* scores keep their order
SortByBenefit(T, q) ==
    IF q = <<>> THEN <<>>
    ELSE LET i == CHOOSE k \in 1..Len(q) :
                     /\ \A j \in 1..Len(q) :
                            calculate_benefit_score(T, q[k]) >= calculate_benefit_score(T, q[j])
                     /\ \A j \in 1..(k - 1) :
                            calculate_benefit_score(T, q[j]) < calculate_benefit_score(T, q[k])
         IN <<q[i]>> \o SortByBenefit(T, SubSeq(q, 1, i - 1) \o SubSeq(q, i + 1, Len(q)))

\* the list `viable` of reallocate_to_available_time after sorting and
\* truncation
ViableSuggestions(T, S, available_start, available_end, max_suggestions) ==
    LET candidates ==
            Take(SortMovable(T, { s \in S :
                     IsMovable(T, s, available_start, available_end - available_start) }),
                 max_suggestions * 2)
    IN Take(SortByBenefit(T, Filter(T, S, candidates, available_start, available_end)),
            max_suggestions)

\* the db.update of the best candidate
MovedRow(best, available_start) ==
    [best EXCEPT !.start_datetime = available_start,
                 !.end_datetime = available_start + DurationHours(best),
                 !.source = "manual",
                 !.is_override = TRUE,
                 !.original_start = best.start_datetime]

\* reallocate_to_available_time with "if viable" for
\* "if mode == 'auto' and viable"
ReallocateInAnyMode(T, S, available_start, available_end, mode, max_suggestions) ==
    LET viable == ViableSuggestions(T, S, available_start, available_end, max_suggestions)
        ids == [i \in 1..Len(viable) |-> viable[i].id]
        best == viable[1]
    IN IF viable # <<>>
       THEN [slots |-> (S \ {best}) \cup {MovedRow(best, available_start)},
             audit |-> << [action |-> "reallocate_auto", entity_type |-> "slot",
                           entity_id |-> best.id, bumped |-> {},
                           rescheduled |-> {}, failed |-> {}] >>,
             suggestions |-> ids, moved |-> best.id]
       ELSE [slots |-> S, audit |-> <<>>, suggestions |-> ids, moved |-> NULL]

\* reallocate_to_available_time(available_start, available_end, mode,
\* max_suggestions): the new scheduled_slots, the audit rows and the result
reallocate_to_available_time(T, S, available_start, available_end, mode, max_suggestions) ==
    LET viable == ViableSuggestions(T, S, available_start, available_end, max_suggestions)
        ids == [i \in 1..Len(viable) |-> viable[i].id]
        best == viable[1]
    IN IF mode = "auto" /\ viable # <<>>
       THEN [slots |-> (S \ {best}) \cup {MovedRow(best, available_start)},
             audit |-> << [action |-> "reallocate_auto", entity_type |-> "slot",
                           entity_id |-> best.id, bumped |-> {},
                           rescheduled |-> {}, failed |-> {}] >>,
             suggestions |-> <<>>, moved |-> best.id]
       ELSE [slots |-> S, audit |-> <<>>, suggestions |-> ids, moved |-> NULL]

----------------------------------------------------------------------------
(* RecurrenceEngine *)

\* a weekly rule with BYDAY whose weeks are counted from from_date, yielding
\* only the weekday of from_date
IsOccurrenceOfStartDay(rrule, from_date, d) ==
    /\ d >= from_date
    /\ \/ rrule.freq = "DAILY"
       \/ rrule.freq = "WEEKLY" /\ (d - from_date) % 7 = 0

\* whether rrulestr(rrule, dtstart = from_date 00:00) yields the date d
IsOccurrence(rrule, from_date, d) ==
    /\ d >= from_date
    /\ \/ rrule.freq = "DAILY"
       \/ rrule.freq = "WEEKLY" /\ rrule.byday # {} /\ DayCode(d) \in rrule.byday
       \/ rrule.freq = "WEEKLY" /\ rrule.byday = {} /\ (d - from_date) % 7 = 0

\* allocation['end_date'] or (datetime.now() + timedelta(days=365)).date()
GenerateEnd(allocation) ==
    IF allocation.end_date # NULL THEN allocation.end_date
    ELSE today + DefaultRangeDays

\* SELECT original_start ... WHERE task_id = ? AND is_override = 1
\* AND original_start IS NOT NULL
OverrideDates(S, task_id) ==
    { s.original_start : s \in { r \in S : /\ r.task_id = task_id
                                            /\ r.is_override
                                            /\ r.original_start # NULL } }

\* the existence query with "is_override = 1" for "is_override = 0"
SlotExistsAmongOverrides(S, task_id, slot_start) ==
    \E s \in S : /\ s.task_id = task_id
                 /\ s.start_datetime = slot_start
                 /\ s.is_override

\* SELECT id ... WHERE task_id = ? AND start_datetime = ? AND is_override = 0
SlotExists(S, task_id, slot_start) ==
    \E s \in S : /\ s.task_id = task_id
                 /\ s.start_datetime = slot_start
                 /\ ~s.is_override

\* the row generate_recurring_slots inserts for an occurrence
AllocationRow(allocation, slot_start, id) ==
    [id |-> id, task_id |-> allocation.task_id,
     start_datetime |-> slot_start,
     end_datetime |-> slot_start + allocation.duration_hours,
     source |-> "allocation", is_override |-> FALSE,
     original_start |-> NULL, is_fixed |-> FALSE, completed |-> FALSE]

RECURSIVE GenerateFrom(_, _, _, _, _, _, _)
\* the loop "for occurrence in rule" from the date d on
GenerateFrom(allocation, from_date, d, end_date, override_dates, S, next_id) ==
    IF d > end_date THEN [slots |-> S, next_id |-> next_id]
    ELSE LET slot_start == At(d, allocation.time_of_day)
         IN IF /\ IsOccurrence(allocation.rrule, from_date, d)
               /\ slot_start \notin override_dates
               /\ ~SlotExists(S, allocation.task_id, slot_start)
            THEN GenerateFrom(allocation, from_date, d + 1, end_date, override_dates,
                              S \cup {AllocationRow(allocation, slot_start, next_id)},
                              next_id + 1)
            ELSE GenerateFrom(allocation, from_date, d + 1, end_date, override_dates,
                              S, next_id)

\* generate_recurring_slots(time_allocation_id, from_date) on the store
\* (A, S, next_id)
generate_recurring_slots(A, S, next_id, time_allocation_id, from_date) ==
    IF ~\E a \in A : a.id = time_allocation_id
    THEN [slots |-> S, next_id |-> next_id, err |-> "AllocationNotFound"]
    ELSE LET allocation == CHOOSE a \in A : a.id = time_allocation_id
             start == IF from_date = NULL THEN allocation.start_date ELSE from_date
             r == GenerateFrom(allocation, start, start, GenerateEnd(allocation),
                               OverrideDates(S, allocation.task_id), S, next_id)
         IN [slots |-> r.slots, next_id |-> r.next_id, err |-> ""]

\* SELECT * FROM time_allocations WHERE task_id = ? (the first row)
AllocationOfTask(A, task_id) ==
    CHOOSE a \in A : a.task_id = task_id /\ \A b \in A : b.task_id = task_id => a.id <= b.id

\* the `updates` of mode this_only without the stamp of original_start
ThisOnlyRowUnstamped(slot, allocation, new_duration, new_time) ==
    LET marked == [slot EXCEPT !.is_override = TRUE, !.source = "manual"]
        resized == IF new_duration # NULL
                   THEN [marked EXCEPT !.end_datetime = slot.start_datetime + new_duration]
                   ELSE marked
        new_start == At(DateOf(slot.start_datetime), new_time)
        duration == IF new_duration # NULL THEN new_duration
                    ELSE allocation.duration_hours
    IN IF new_time # NULL
       THEN [resized EXCEPT !.start_datetime = new_start,
                            !.end_datetime = new_start + duration]
       ELSE resized

\* the `updates` of edit_recurring_instance in mode this_only applied to the
\* row
ThisOnlyRow(slot, allocation, new_duration, new_time) ==
    LET stamped == [slot EXCEPT !.is_override = TRUE, !.source = "manual",
                                !.original_start =
                                    IF slot.original_start = NULL
                                    THEN slot.start_datetime ELSE @]
        resized == IF new_duration # NULL
                   THEN [stamped EXCEPT !.end_datetime = slot.start_datetime + new_duration]
                   ELSE stamped
        new_start == At(DateOf(slot.start_datetime), new_time)
        duration == IF new_duration # NULL THEN new_duration
                    ELSE allocation.duration_hours
    IN IF new_time # NULL
       THEN [resized EXCEPT !.start_datetime = new_start,
                            !.end_datetime = new_start + duration]
       ELSE resized

\* the row delete_recurring_instance leaves for an allocation-sourced slot
SuppressedRow(slot) ==
    [slot EXCEPT !.is_override = TRUE, !.start_datetime = NULL,
                 !.end_datetime = NULL, !.original_start = slot.start_datetime]

----------------------------------------------------------------------------
(* The stores the model starts from *)

TaskIds == 1..3

\* a task id, an allocation id and a slot id no row has
UnknownId == 9

TaskRow(priority, estimated_hours, start_date, deadline) ==
    [priority |-> priority, estimated_hours |-> Hours(estimated_hours),
     min_session_hours |-> Hours(2), is_reschedulable |-> TRUE,
     has_time_allocation |-> FALSE,
     start_date |-> start_date, deadline |-> deadline,
     status |-> "not_started", archived |-> FALSE]

\* a task that owns a recurring allocation
Recurring(task) == [task EXCEPT !.has_time_allocation = TRUE]

SettingsProfiles ==
    { [work_schedule |-> "weekdays", custom_days |-> {},
       work_start_time |-> 9, work_end_time |-> 17, excluded_dates |-> {}] }

NoBlocks == {}

LunchBlock == { [id |-> 1, start_datetime |-> At(0, 12), end_datetime |-> At(0, 13)] }

\* the lunch block, a block inside Monday morning and one across Tuesday's
\* early afternoon
ThreeBlocks ==
    LunchBlock \cup
    { [id |-> 2, start_datetime |-> At(0, 10), end_datetime |-> At(0, 11)],
      [id |-> 3, start_datetime |-> At(1, 14), end_datetime |-> At(1, 16)] }

\* FREQ=DAILY and FREQ=WEEKLY;BYDAY=MO,WE
Daily == [freq |-> "DAILY", byday |-> {}]

MondayWednesday == [freq |-> "WEEKLY", byday |-> {"MO", "WE"}]

\* FREQ=WEEKLY;BYDAY=MO,WE,FR
MondayWednesdayFriday == [freq |-> "WEEKLY", byday |-> {"MO", "WE", "FR"}]

\* the allocation of a recurring task: duration_hours at time_of_day on the
\* dates of rrule, from the task's start date to its deadline
AllocationOf(T, task_id, rrule, time_of_day, duration_hours) ==
    [id |-> task_id, task_id |-> task_id, rrule |-> rrule,
     duration_hours |-> duration_hours, time_of_day |-> time_of_day,
     start_date |-> T[task_id].start_date, end_date |-> T[task_id].deadline]

HighOverLow ==
    <<TaskRow(2, 8, 0, 1), TaskRow(5, 4, 0, 0), TaskRow(5, 4, 0, 0)>>

LongHighWithRecurring ==
    <<TaskRow(2, 5, 0, 1), TaskRow(5, 8, 0, 0), Recurring(TaskRow(1, 2, 1, 1))>>

MidWithRecurring ==
    <<TaskRow(3, 5, 0, 1), TaskRow(4, 4, 0, 1), Recurring(TaskRow(3, 4, 0, 1))>>

\* a 6h task due three work days out, beside two urgent ones
SixHoursInThreeDays ==
    <<TaskRow(3, 6, 0, 3), TaskRow(5, 8, 0, 0), TaskRow(5, 4, 0, 0)>>

TwoRecurring ==
    <<Recurring(TaskRow(2, 4, 0, 1)), TaskRow(3, 2, 0, 1), Recurring(TaskRow(3, 4, 0, 1))>>

\* the stores the scheduling runs start from: the task table, the blocked
\* times and the allocations of the recurring tasks; in the second and the
\* third an urgent task stands beside two lesser ones that differ in
\* priority, and beside two of one priority that differ in deadline
Scenarios ==
    { [tasks |-> HighOverLow, blocked_times |-> NoBlocks, time_allocations |-> {}],
      [tasks |-> <<TaskRow(2, 4, 0, 0), TaskRow(5, 4, 0, 0), TaskRow(1, 4, 0, 1)>>,
       blocked_times |-> NoBlocks, time_allocations |-> {}],
      [tasks |-> <<TaskRow(2, 4, 0, 0), TaskRow(5, 4, 0, 0), TaskRow(2, 4, 0, 1)>>,
       blocked_times |-> NoBlocks, time_allocations |-> {}],
      [tasks |-> SixHoursInThreeDays, blocked_times |-> NoBlocks,
       time_allocations |-> {}],
      [tasks |-> LongHighWithRecurring, blocked_times |-> NoBlocks,
       time_allocations |-> {AllocationOf(LongHighWithRecurring, 3, Daily, 13, Hours(2))}],
      [tasks |-> MidWithRecurring, blocked_times |-> LunchBlock,
       time_allocations |-> {AllocationOf(MidWithRecurring, 3, Daily, 13, Hours(2))}] }

\* the stores the runs with completed and fixed sessions start from
MarksScenarios ==
    { [tasks |-> HighOverLow, blocked_times |-> NoBlocks, time_allocations |-> {}] }

\* three tasks of four weeks with no allocation yet
FourWeeks ==
    <<TaskRow(3, 4, 0, 27), TaskRow(3, 4, 0, 27), TaskRow(2, 4, 0, 27)>>

\* the stores the runs that create time allocations start from
PatternScenarios ==
    { [tasks |-> FourWeeks, blocked_times |-> NoBlocks, time_allocations |-> {}] }

\* the TimeAllocationCreate bodies: rrule, duration_hours, time_of_day,
\* start_date and the days from start_date to end_date
PatternRules == { MondayWednesday, MondayWednesdayFriday }

PatternDurations == { HalfHours(3), Hours(2) }

PatternTimes == { 14 }

PatternStarts == { 0, 2 }

PatternSpans == { 6, 20 }

\* the stores the conflict queries are run on
ConflictScenarios ==
    { [tasks |-> MidWithRecurring, blocked_times |-> ThreeBlocks,
       time_allocations |-> {AllocationOf(MidWithRecurring, 3, Daily, 13, Hours(2))}] }

\* the stores the recurrence runs start from
RecurrenceScenarios ==
    { [tasks |-> TwoRecurring, blocked_times |-> NoBlocks,
       time_allocations |-> {AllocationOf(TwoRecurring, 1, Daily, 13, Hours(2)),
                             AllocationOf(TwoRecurring, 3, MondayWednesday, 9, Hours(1))}] }

\* the handlers that can be in flight at once
RequestIds == 1..2

\* a handler slot with no request in it
Idle ==
    [pc |-> "idle", op |-> "none", task_id |-> NULL, remaining |-> 0,
     sessions |-> <<>>, to_bump |-> <<>>, bumped |-> <<>>, res |-> NoResult]

\* deleted, edited: the occurrences (task, start) of recurrence patterns
\* that were deleted and that were edited in mode this_only;
\* before, before_id: scheduled_slots and its id counter when the first of
\* the requests in flight arrived
NoHistory == [deleted |-> {}, edited |-> {}, before |-> {}, before_id |-> NULL]

RECURSIVE GenerateAll(_, _, _, _)
\* create_time_allocation for each allocation, in id order: each generates
\* its slots as soon as its row is inserted
GenerateAll(A, ids, S, next_id) ==
    IF ids = <<>> THEN [slots |-> S, next_id |-> next_id]
    ELSE LET r == generate_recurring_slots(A, S, next_id, Head(ids), NULL)
         IN GenerateAll(A, Tail(ids), r.slots, r.next_id)

\* a store right after its tasks, blocked times and allocations were created:
\* the only sessions are those the allocations generated
InitFrom(scenarios) ==
    /\ \E sc \in scenarios :
           /\ tasks = sc.tasks
           /\ blocked_times = sc.blocked_times
           /\ time_allocations = sc.time_allocations
           /\ \E g \in {GenerateAll(sc.time_allocations,
                                    SetToSeq({ a.id : a \in sc.time_allocations }),
                                    {}, 1)} :
                  /\ scheduled_slots = g.slots
                  /\ next_slot_id = g.next_id
    /\ calendar_settings \in SettingsProfiles
    /\ activity_log = <<>>
    /\ today = 0
    /\ last = NoResult
    /\ requests = [q \in RequestIds |-> Idle]
    /\ history = NoHistory

Init == InitFrom(Scenarios)

InitMarks == InitFrom(MarksScenarios)

InitRecurrence == InitFrom(RecurrenceScenarios)

InitPatterns == InitFrom(PatternScenarios)

InitConflicts == InitFrom(ConflictScenarios)

\* a recurring task of Tuesday and Wednesday beside two plain ones, the
\* recurring task owning one allocation or two
InitSplit ==
    LET T == <<Recurring(TaskRow(2, 4, 1, 2)), TaskRow(3, 2, 1, 2), TaskRow(3, 4, 1, 2)>>
        afternoons == AllocationOf(T, 1, Daily, 13, Hours(2))
        mornings == [AllocationOf(T, 1, Daily, 9, Hours(1)) EXCEPT !.id = 2]
    IN InitFrom({ [tasks |-> T, blocked_times |-> NoBlocks,
                   time_allocations |-> {afternoons}],
                  [tasks |-> T, blocked_times |-> NoBlocks,
                   time_allocations |-> {afternoons, mornings}] })

\* a high-priority recurring task with a deadline next week, a recurring task
\* of middle priority that is due tomorrow, and a plain one
InitAdvisor ==
    LET T == <<Recurring(TaskRow(5, 4, 0, 8)), Recurring(TaskRow(3, 2, 0, 1)),
               TaskRow(4, 4, 0, 1)>>
        afternoons == [AllocationOf(T, 1, Daily, 13, Hours(2)) EXCEPT !.end_date = 1]
        late == [AllocationOf(T, 2, Daily, 15, Hours(1)) EXCEPT !.end_date = 0]
    IN InitFrom({ [tasks |-> T, blocked_times |-> NoBlocks,
                   time_allocations |-> {afternoons, late}],
                  [tasks |-> T, blocked_times |-> LunchBlock,
                   time_allocations |-> {afternoons, late}] })

\* the calendar settings of the runs on availability: weekdays, all week
\* with Tuesday excluded, and a custom week of shorter days
CalendarProfiles ==
    { [work_schedule |-> "weekdays", custom_days |-> {},
       work_start_time |-> 9, work_end_time |-> 17, excluded_dates |-> {}],
      [work_schedule |-> "all_week", custom_days |-> {},
       work_start_time |-> 9, work_end_time |-> 17, excluded_dates |-> {1}],
      [work_schedule |-> "custom", custom_days |-> {"MO", "WE", "SA"},
       work_start_time |-> 10, work_end_time |-> 16, excluded_dates |-> {}] }

\* the (start_date, end_date) windows are asked for
WindowRanges == { <<0, 6>>, <<5, 7>>, <<1, 1>>, <<2, 1>> }

\* a task of Monday, one with no start date that is due on Tuesday and one
\* of Friday to Sunday, on an empty calendar with the lunch block
InitAvailability ==
    /\ tasks = <<TaskRow(2, 7, 0, 0), TaskRow(3, 4, NULL, 1), TaskRow(3, 10, 4, 6)>>
    /\ blocked_times = LunchBlock
    /\ time_allocations = {}
    /\ scheduled_slots = {}
    /\ next_slot_id = 1
    /\ calendar_settings \in CalendarProfiles
    /\ activity_log = <<>>
    /\ today = 0
    /\ last = NoResult
    /\ requests = [q \in RequestIds |-> Idle]
    /\ history = NoHistory

\* the windows the advisor is asked to fill
AdvisorWindows ==
    { <<At(0, 9), At(0, 13)>>, <<At(0, 9), At(0, 10)>>, <<At(0, 11), At(0, 13)>> }

\* the (start, end) has_conflict is asked about, and the task ids it is
\* told to leave out
ProbeWindows ==
    { <<At(0, 9), At(0, 12)>>, <<At(0, 12), At(0, 13)>>, <<At(0, 13), At(0, 15)>>,
      <<At(0, 15), At(0, 17)>>, <<At(0, 9), At(0, 17)>>, <<At(0, 13), At(1, 13)>>,
      <<At(1, 9), At(1, 17)>> }

ProbeTasks == { NULL, 3 }

\* what the operations are called with
ManualTimes == { <<At(0, 9), At(0, 13)>>, <<At(0, 13), At(0, 17)>> }

SuggestWindows == { <<At(0, 9), At(0, 13)>> }

SuggestLimits == {1, 5}

\* (new_duration, new_time) of an edit: a new time of day, or a new duration
\* the new_start of a move
MoveTimes == { At(0, 15), At(1, 9) }

EditChoices == { <<NULL, 15>>, <<Hours(1), NULL>> }

SlotIds == { s.id : s \in scheduled_slots }

\* the occurrence of its pattern that an allocation-sourced row stands for,
\* as the set of its (task, start) pair; empty for any other row
Occurrence(slot) ==
    IF slot.source = "allocation" /\ slot.start_datetime # NULL
    THEN { <<slot.task_id, slot.start_datetime>> }
    ELSE {}

SlotById(id) == CHOOSE s \in scheduled_slots : s.id = id

----------------------------------------------------------------------------
(* The operations *)

\* POST /schedule/task/{task_id} without force_bump, which runs
\* auto_schedule_task for a task of priority below BumpPriority (an unknown
\* task is an error either way)
ScheduleTask(task_id) ==
    \E r \in {auto_schedule_task(tasks, scheduled_slots, next_slot_id, task_id)} :
       /\ task_id \in DOMAIN tasks => tasks[task_id].priority < BumpPriority
       /\ r.next_id <= MaxSlotId + 1
       /\ scheduled_slots' = r.slots
       /\ next_slot_id' = r.next_id
       /\ last' = [NoResult EXCEPT !.op = "scheduleTask", !.task_id = task_id,
                                   !.err = r.err, !.scheduled = r.scheduled,
                                   !.hours_remaining = r.hours_remaining,
                                   !.method = "normal",
                                   !.produced = r.produced]
       /\ UNCHANGED <<tasks, blocked_times, time_allocations, calendar_settings,
                      activity_log, today, requests, history>>

\* POST /schedule/auto: auto_schedule_all_tasks
ScheduleAll ==
    \E r \in {auto_schedule_all_tasks(tasks, scheduled_slots, next_slot_id)} :
       /\ r.next_id <= MaxSlotId + 1
       /\ scheduled_slots' = r.slots
       /\ next_slot_id' = r.next_id
       /\ last' = [NoResult EXCEPT !.op = "scheduleAll", !.batch = r.batch,
                                   !.all_scheduled = r.scheduled,
                                   !.all_partial = r.partial,
                                   !.all_failed = r.failed,
                                   !.produced = r.produced]
       /\ UNCHANGED <<tasks, blocked_times, time_allocations, calendar_settings,
                      activity_log, today, requests, history>>

\* POST /schedule/task/{task_id} with force_bump or priority >= BumpPriority:
\* attempt_with_bumping
ScheduleWithBumping(task_id) ==
    \E r \in {attempt_with_bumping(tasks, scheduled_slots, next_slot_id, task_id)} :
       /\ r.next_id <= MaxSlotId + 1
       /\ Len(activity_log) + Len(r.audit) <= MaxLog
       /\ scheduled_slots' = r.slots
       /\ next_slot_id' = r.next_id
       /\ activity_log' = activity_log \o r.audit
       /\ last' = r.res
       /\ UNCHANGED <<tasks, blocked_times, time_allocations, calendar_settings,
                      today, requests, history>>

\* the conflict query of create_manual_slot
ManualConflict(S, start_datetime, end_datetime) ==
    \E s \in S :
        /\ ~s.completed
        /\ s.start_datetime # NULL
        /\ \/ (s.start_datetime < end_datetime /\ s.end_datetime > start_datetime)
           \/ (s.start_datetime < end_datetime /\ s.end_datetime > end_datetime)
           \/ (s.start_datetime >= start_datetime /\ s.end_datetime <= end_datetime)

\* POST /slots/manual: create_manual_slot
CreateManualSlot(task_id, start_datetime, end_datetime, is_fixed) ==
    /\ task_id \in DOMAIN tasks
    /\ ~ManualConflict(scheduled_slots, start_datetime, end_datetime)
    /\ next_slot_id <= MaxSlotId
    /\ scheduled_slots' = scheduled_slots \cup
           { [id |-> next_slot_id, task_id |-> task_id,
              start_datetime |-> start_datetime, end_datetime |-> end_datetime,
              source |-> "manual", is_override |-> FALSE,
              original_start |-> NULL, is_fixed |-> is_fixed,
              completed |-> FALSE] }
    /\ next_slot_id' = next_slot_id + 1
    /\ last' = [NoResult EXCEPT !.op = "createManualSlot", !.task_id = task_id,
                                !.slot_id = next_slot_id]
    /\ UNCHANGED <<tasks, blocked_times, time_allocations, calendar_settings,
                   activity_log, today, requests, history>>

\* a call has_conflict(start_datetime, end_datetime, exclude_task_id=,
\* exclude_slot_id=) and its answer
CheckConflict(start_datetime, end_datetime, exclude_task_id, exclude_slot_id) ==
    /\ start_datetime < end_datetime
    /\ last' = [NoResult EXCEPT
                   !.op = "hasConflict",
                   !.window = <<start_datetime, end_datetime>>,
                   !.task_id = exclude_task_id, !.slot_id = exclude_slot_id,
                   !.conflict = has_conflict(tasks, scheduled_slots, start_datetime,
                                             end_datetime, exclude_task_id,
                                             exclude_slot_id)]
    /\ UNCHANGED <<tasks, scheduled_slots, blocked_times, time_allocations,
                   calendar_settings, activity_log, next_slot_id, today,
                   requests, history>>

\* a call get_available_time_in_slot(slot_start, slot_end, exclude_task_id)
\* and the list it returns
AskAvailableTime(slot_start, slot_end, exclude_task_id) ==
    /\ slot_start < slot_end
    /\ last' = [NoResult EXCEPT
                   !.op = "freeRanges",
                   !.window = <<slot_start, slot_end>>,
                   !.task_id = exclude_task_id,
                   !.ranges = get_available_time_in_slot(tasks, scheduled_slots,
                                                         slot_start, slot_end,
                                                         exclude_task_id)]
    /\ UNCHANGED <<tasks, scheduled_slots, blocked_times, time_allocations,
                   calendar_settings, activity_log, next_slot_id, today,
                   requests, history>>

\* a call generate_available_slots(start_date, end_date, calendar_settings)
\* and the list it returns
AskWindows(start_date, end_date) ==
    /\ last' = [NoResult EXCEPT
                   !.op = "windows",
                   !.dates = <<start_date, end_date>>,
                   !.windows = generate_available_slots(start_date, end_date,
                                                        calendar_settings)]
    /\ UNCHANGED <<tasks, scheduled_slots, blocked_times, time_allocations,
                   calendar_settings, activity_log, next_slot_id, today,
                   requests, history>>

\* GET /schedule/feasibility/{task_id}: check_task_feasibility_endpoint
Feasible(task_id) ==
    /\ last' = IF task_id \notin DOMAIN tasks
               THEN [NoResult EXCEPT !.op = "feasible", !.task_id = task_id,
                                     !.err = "TaskNotFound"]
               ELSE LET r == check_deadline_feasibility(tasks, scheduled_slots, task_id)
                    IN [NoResult EXCEPT !.op = "feasible", !.task_id = task_id,
                                        !.feasible = r.feasible,
                                        !.required_hours = r.required_hours,
                                        !.available_hours = r.available_hours,
                                        !.shortfall = r.shortfall]
    /\ UNCHANGED <<tasks, scheduled_slots, blocked_times, time_allocations,
                   calendar_settings, activity_log, next_slot_id, today,
                   requests, history>>

\* POST /slots/{slot_id}/complete: complete_slot
CompleteSlot(slot_id) ==
    /\ slot_id \in SlotIds
    /\ LET slot == SlotById(slot_id)
           S1 == (scheduled_slots \ {slot}) \cup {[slot EXCEPT !.completed = TRUE]}
           remaining_count ==
               Cardinality({ s \in S1 : /\ s.task_id = slot.task_id
                                        /\ ~s.completed
                                        /\ NotSuppressed(s) })
       IN /\ scheduled_slots' = S1
          /\ tasks' = IF remaining_count = 0 /\ slot.task_id \in DOMAIN tasks
                      THEN [tasks EXCEPT ![slot.task_id].status = "completed"]
                      ELSE tasks
          /\ last' = [NoResult EXCEPT !.op = "completeSlot", !.slot_id = slot_id,
                                      !.task_id = slot.task_id]
    /\ UNCHANGED <<blocked_times, time_allocations, calendar_settings,
                   activity_log, next_slot_id, today, requests, history>>

\* POST /schedule/reallocate-now: reallocate_to_available_time
Suggest(available_start, available_end, mode, max_suggestions) ==
    \E r \in {reallocate_to_available_time(tasks, scheduled_slots, available_start,
                                          available_end, mode, max_suggestions)} :
       /\ Len(activity_log) + Len(r.audit) <= MaxLog
       /\ scheduled_slots' = r.slots
       /\ activity_log' = activity_log \o r.audit
       /\ last' = [NoResult EXCEPT !.op = "suggest", !.method = mode,
                                   !.window = <<available_start, available_end>>,
                                   !.limit = max_suggestions,
                                   !.suggestions = r.suggestions,
                                   !.moved = r.moved]
       /\ UNCHANGED <<tasks, blocked_times, time_allocations, calendar_settings,
                      next_slot_id, today, requests, history>>

\* generate_recurring_slots(time_allocation_id, from_date)
Generate(time_allocation_id, from_date) ==
    \E r \in {generate_recurring_slots(time_allocations, scheduled_slots,
                                      next_slot_id, time_allocation_id, from_date)} :
       /\ r.next_id <= MaxSlotId + 1
       /\ scheduled_slots' = r.slots
       /\ next_slot_id' = r.next_id
       /\ last' = [NoResult EXCEPT !.op = "generate", !.err = r.err,
                                   !.allocation_id = time_allocation_id,
                                   !.from_date = from_date,
                                   !.generated = r.slots \ scheduled_slots]
       /\ UNCHANGED <<tasks, blocked_times, time_allocations, calendar_settings,
                      activity_log, today, requests, history>>

\* the id AUTOINCREMENT gives the next row of time_allocations
NextAllocationId(A) ==
    IF A = {} THEN 1
    ELSE (CHOOSE a \in A : \A b \in A : b.id <= a.id).id + 1

\* POST /time-allocations: create_time_allocation
CreateTimeAllocation(task_id, rrule, duration_hours, time_of_day, start_date, end_date) ==
    /\ task_id \in DOMAIN tasks
    /\ NextAllocationId(time_allocations) <= MaxAllocationId
    /\ LET allocation ==
               [id |-> NextAllocationId(time_allocations), task_id |-> task_id,
                rrule |-> rrule, duration_hours |-> duration_hours,
                time_of_day |-> time_of_day, start_date |-> start_date,
                end_date |-> end_date]
       IN \E r \in {generate_recurring_slots(time_allocations \cup {allocation},
                                             scheduled_slots, next_slot_id,
                                             allocation.id, NULL)} :
              /\ r.next_id <= MaxPatternSlotId + 1
              /\ time_allocations' = time_allocations \cup {allocation}
              /\ tasks' = [tasks EXCEPT ![task_id].has_time_allocation = TRUE]
              /\ scheduled_slots' = r.slots
              /\ next_slot_id' = r.next_id
              /\ last' = [NoResult EXCEPT !.op = "createTimeAllocation",
                                          !.task_id = task_id, !.err = r.err,
                                          !.allocation_id = allocation.id,
                                          !.generated = r.slots \ scheduled_slots]
    /\ UNCHANGED <<blocked_times, calendar_settings, activity_log, today,
                   requests, history>>

\* edit_recurring_instance(slot_id, 'this_only', new_duration=, new_time=)
EditThisOnly(slot_id, new_duration, new_time) ==
    /\ slot_id \in SlotIds
    /\ LET slot == SlotById(slot_id)
       IN /\ slot.source = "allocation"
          /\ \E a \in time_allocations : a.task_id = slot.task_id
          /\ (new_duration # NULL \/ new_time # NULL) => slot.start_datetime # NULL
          /\ scheduled_slots' = (scheduled_slots \ {slot}) \cup
                 { ThisOnlyRow(slot, AllocationOfTask(time_allocations, slot.task_id),
                               new_duration, new_time) }
          /\ last' = [NoResult EXCEPT !.op = "editInstance", !.method = "this_only",
                                      !.slot_id = slot_id, !.task_id = slot.task_id]
          /\ history' = [history EXCEPT !.edited = @ \cup Occurrence(slot)]
    /\ UNCHANGED <<tasks, blocked_times, time_allocations, calendar_settings,
                   activity_log, next_slot_id, today, requests>>

\* edit_recurring_instance(slot_id, 'this_and_future', new_rrule=,
\* new_duration=, new_time=); the day before the split date is a date of the
\* model when the split date is after day 0; new_rrule is <<>> for None and
\* <<rule>> for a rule
EditThisAndFuture(slot_id, new_rrule, new_duration, new_time) ==
    /\ slot_id \in SlotIds
    /\ Len(tasks) < MaxTaskId
    /\ Len(activity_log) < MaxLog
    /\ LET slot == SlotById(slot_id)
       IN /\ slot.source = "allocation"
          /\ \E a \in time_allocations : a.task_id = slot.task_id
          /\ slot.start_datetime # NULL
          /\ DateOf(slot.start_datetime) > 0
          /\ LET allocation == AllocationOfTask(time_allocations, slot.task_id)
                 original_task == tasks[slot.task_id]
                 split_date == DateOf(slot.start_datetime)
                 closed == [allocation EXCEPT !.end_date = split_date - 1]
                 A1 == (time_allocations \ {allocation}) \cup {closed}
                 S1 == { s \in scheduled_slots :
                             ~(/\ s.task_id = slot.task_id
                               /\ s.start_datetime # NULL
                               /\ s.start_datetime >= slot.start_datetime
                               /\ ~s.is_override) }
                 new_task_id == Len(tasks) + 1
                 new_task == [original_task EXCEPT !.start_date = split_date,
                                                   !.has_time_allocation = TRUE,
                                                   !.archived = FALSE]
                 new_allocation ==
                     [id |-> NextAllocationId(A1), task_id |-> new_task_id,
                      rrule |-> IF new_rrule # <<>> THEN new_rrule[1]
                                ELSE allocation.rrule,
                      duration_hours |-> IF new_duration # NULL THEN new_duration
                                         ELSE allocation.duration_hours,
                      time_of_day |-> IF new_time # NULL THEN new_time
                                      ELSE allocation.time_of_day,
                      start_date |-> split_date,
                      end_date |-> allocation.end_date]
             IN \E r \in {generate_recurring_slots(A1 \cup {new_allocation}, S1,
                                                   next_slot_id, new_allocation.id,
                                                   split_date)} :
                    /\ r.next_id <= MaxPatternSlotId + 1
                    /\ time_allocations' = A1 \cup {new_allocation}
                    /\ tasks' = Append(tasks, new_task)
                    /\ scheduled_slots' = r.slots
                    /\ next_slot_id' = r.next_id
                    /\ activity_log' = Append(activity_log,
                           [action |-> "split_recurring_task", entity_type |-> "task",
                            entity_id |-> slot.task_id, bumped |-> {},
                            rescheduled |-> {}, failed |-> {}])
                    /\ last' = [NoResult EXCEPT
                                   !.op = "editInstance", !.method = "this_and_future",
                                   !.slot_id = slot_id, !.task_id = slot.task_id,
                                   !.allocation_id = new_allocation.id,
                                   !.from_date = split_date,
                                   !.window = <<slot.start_datetime, slot.end_datetime>>,
                                   !.edit = <<new_rrule, new_duration, new_time>>,
                                   !.generated = r.slots \ S1]
    /\ UNCHANGED <<blocked_times, calendar_settings, today, requests, history>>

\* edit_recurring_instance(slot_id, mode) with a mode that is neither
\* 'this_only' nor 'this_and_future': the checks before the modes, then the
\* final else
EditInvalidMode(slot_id, mode) ==
    /\ mode \notin {"this_only", "this_and_future"}
    /\ last' = [NoResult EXCEPT
                   !.op = "editInstance", !.method = mode, !.slot_id = slot_id,
                   !.err = IF slot_id \notin SlotIds THEN "SlotNotFound"
                           ELSE IF SlotById(slot_id).source # "allocation"
                           THEN "NotAnAllocationInstance"
                           ELSE IF ~\E a \in time_allocations :
                                       a.task_id = SlotById(slot_id).task_id
                           THEN "AllocationNotFound"
                           ELSE "InvalidEditMode"]
    /\ UNCHANGED <<tasks, scheduled_slots, blocked_times, time_allocations,
                   calendar_settings, activity_log, next_slot_id, today,
                   requests, history>>

\* regenerate_all_recurring_slots returning normally for a task with no
\* allocation
RegenerateAllQuietly(task_id) ==
    LET ids == { a.id : a \in { b \in time_allocations : b.task_id = task_id } }
    IN \E r \in {GenerateAll(time_allocations, SetToSeq(ids), scheduled_slots,
                             next_slot_id)} :
           /\ r.next_id <= MaxPatternSlotId + 1
           /\ scheduled_slots' = r.slots
           /\ next_slot_id' = r.next_id
           /\ last' = [NoResult EXCEPT
                          !.op = "regenerateAll", !.task_id = task_id,
                          !.generated = r.slots \ scheduled_slots]
           /\ UNCHANGED <<tasks, blocked_times, time_allocations, calendar_settings,
                          activity_log, today, requests, history>>

\* regenerate_all_recurring_slots(task_id)
RegenerateAll(task_id) ==
    LET ids == { a.id : a \in { b \in time_allocations : b.task_id = task_id } }
    IN \E r \in {GenerateAll(time_allocations, SetToSeq(ids), scheduled_slots,
                             next_slot_id)} :
           /\ r.next_id <= MaxPatternSlotId + 1
           /\ scheduled_slots' = r.slots
           /\ next_slot_id' = r.next_id
           /\ last' = [NoResult EXCEPT
                          !.op = "regenerateAll", !.task_id = task_id,
                          !.err = IF ids = {} THEN "NoAllocationsForTask" ELSE "",
                          !.generated = r.slots \ scheduled_slots]
           /\ UNCHANGED <<tasks, blocked_times, time_allocations, calendar_settings,
                          activity_log, today, requests, history>>

\* delete_recurring_instance(slot_id)
DeleteInstance(slot_id) ==
    /\ slot_id \in SlotIds
    /\ LET slot == SlotById(slot_id)
       IN /\ scheduled_slots' =
                 IF slot.source = "allocation"
                 THEN (scheduled_slots \ {slot}) \cup {SuppressedRow(slot)}
                 ELSE scheduled_slots \ {slot}
          /\ last' = [NoResult EXCEPT !.op = "deleteInstance",
                                      !.slot_id = slot_id, !.task_id = slot.task_id]
          /\ history' = [history EXCEPT !.deleted = @ \cup Occurrence(slot)]
    /\ UNCHANGED <<tasks, blocked_times, time_allocations, calendar_settings,
                   activity_log, next_slot_id, today, requests>>

\* the row DELETE /slots/{slot_id} leaves for an allocation-sourced slot
HiddenRow(slot) ==
    [slot EXCEPT !.is_override = TRUE, !.start_datetime = NULL,
                 !.end_datetime = NULL]

\* DELETE /slots/{slot_id}: delete_slot
DeleteSlot(slot_id) ==
    /\ slot_id \in SlotIds
    /\ LET slot == SlotById(slot_id)
       IN /\ scheduled_slots' =
                 IF slot.source = "allocation"
                 THEN (scheduled_slots \ {slot}) \cup {HiddenRow(slot)}
                 ELSE scheduled_slots \ {slot}
          /\ last' = [NoResult EXCEPT !.op = "deleteSlot",
                                      !.slot_id = slot_id, !.task_id = slot.task_id]
          /\ history' = [history EXCEPT !.deleted = @ \cup Occurrence(slot)]
    /\ UNCHANGED <<tasks, blocked_times, time_allocations, calendar_settings,
                   activity_log, next_slot_id, today, requests>>

\* the db.update of accept_reallocation
AcceptedRow(slot, new_start) ==
    [slot EXCEPT !.start_datetime = new_start,
                 !.end_datetime = new_start + DurationHours(slot),
                 !.source = "manual",
                 !.is_override = TRUE,
                 !.original_start = slot.start_datetime]

\* POST /schedule/reallocate-accept/{slot_id}: accept_reallocation
AcceptReallocation(slot_id, new_start) ==
    /\ slot_id \in SlotIds
    /\ Len(activity_log) < MaxLog
    /\ LET slot == SlotById(slot_id)
       IN /\ DurationHours(slot) # NULL
          /\ ~has_conflict(tasks, scheduled_slots, new_start,
                           new_start + DurationHours(slot), NULL, slot_id)
          /\ scheduled_slots' = (scheduled_slots \ {slot})
                                    \cup {AcceptedRow(slot, new_start)}
          /\ activity_log' = Append(activity_log,
                 [action |-> "reallocate_accept", entity_type |-> "slot",
                  entity_id |-> slot_id, bumped |-> {}, rescheduled |-> {},
                  failed |-> {}])
          /\ last' = [NoResult EXCEPT !.op = "acceptReallocation",
                                      !.slot_id = slot_id, !.task_id = slot.task_id,
                                      !.moved = slot_id]
    /\ UNCHANGED <<tasks, blocked_times, time_allocations, calendar_settings,
                   next_slot_id, today, requests, history>>

\* the db.update of move_slot
ManuallyMovedRow(slot, new_start) ==
    [slot EXCEPT !.start_datetime = new_start,
                 !.end_datetime = new_start + DurationHours(slot),
                 !.is_override = TRUE,
                 !.original_start = IF slot.original_start # NULL
                                    THEN slot.original_start
                                    ELSE slot.start_datetime,
                 !.source = "manual"]

\* PUT /slots/{slot_id}/move: move_slot, which answers a fixed slot, a task
\* that is not reschedulable and a conflict without moving anything
MoveSlot(slot_id, new_start) ==
    /\ slot_id \in SlotIds
    /\ LET slot == SlotById(slot_id)
           refused ==
               \/ slot.is_fixed
               \/ (~tasks[slot.task_id].is_reschedulable /\ slot.source # "manual")
               \/ has_conflict(tasks, scheduled_slots, new_start,
                               new_start + DurationHours(slot), NULL, slot_id)
       IN /\ slot.task_id \in DOMAIN tasks
          /\ DurationHours(slot) # NULL
          /\ scheduled_slots' =
                 IF refused THEN scheduled_slots
                 ELSE (scheduled_slots \ {slot}) \cup {ManuallyMovedRow(slot, new_start)}
          /\ last' = [NoResult EXCEPT !.op = "moveSlot",
                                      !.slot_id = slot_id, !.task_id = slot.task_id,
                                      !.moved = IF refused THEN NULL ELSE slot_id]
    /\ UNCHANGED <<tasks, blocked_times, time_allocations, calendar_settings,
                   activity_log, next_slot_id, today, requests, history>>

----------------------------------------------------------------------------
(* The scheduling handlers call by call.  FastAPI runs each handler in a   *)
(* thread of its pool and every call of Database commits by itself, so the *)
(* calls of two handlers interleave.  A step below is one store call of    *)
(* the handler or a few consecutive ones.                                  *)

\* the store and `last` stay as they are but for the named request
Proceed(q, local) ==
    /\ requests' = [requests EXCEPT ![q] = local]
    /\ UNCHANGED <<tasks, blocked_times, time_allocations, calendar_settings,
                   today, history>>

\* the handler returns or raises: its result becomes `last`
Finish(q, res) ==
    /\ requests' = [requests EXCEPT ![q] = [@ EXCEPT !.pc = "done", !.res = res]]
    /\ last' = res
    /\ UNCHANGED <<tasks, blocked_times, time_allocations, calendar_settings,
                   today, history>>

\* a request for POST /schedule/task/{task_id} arrives: schedule_single_task
\* picks auto_schedule_task or attempt_with_bumping
Arrive(q, task_id, force_bump) ==
    /\ requests[q].pc = "idle"
    /\ task_id \in DOMAIN tasks
    /\ LET bump == force_bump \/ tasks[task_id].priority >= BumpPriority
           op == IF bump THEN "scheduleWithBumping" ELSE "scheduleTask"
       IN requests' = [requests EXCEPT ![q] =
              [Idle EXCEPT !.pc = "pack", !.op = op, !.task_id = task_id,
                           !.res = [NoResult EXCEPT !.op = op,
                                                    !.task_id = task_id]]]
    /\ history' = IF history.before_id = NULL
                  THEN [history EXCEPT !.before = scheduled_slots,
                                       !.before_id = next_slot_id]
                  ELSE history
    /\ UNCHANGED <<tasks, scheduled_slots, blocked_times, time_allocations,
                   calendar_settings, activity_log, next_slot_id, today, last>>

\* create_task_sessions over the task's range as the store is now
PackNow(task_id) ==
    create_task_sessions(tasks, scheduled_slots, task_id,
                         tasks[task_id].estimated_hours,
                         generate_available_slots(RangeStart(tasks[task_id]),
                                                  RangeEnd(tasks[task_id]),
                                                  calendar_settings),
                         tasks[task_id].min_session_hours)

\* the first create_task_sessions of either handler
Pack(q) ==
    /\ requests[q].pc = "pack"
    /\ UNCHANGED <<scheduled_slots, activity_log, next_slot_id>>
    /\ LET me == requests[q]
       IN IF me.op = "scheduleTask" /\ tasks[me.task_id].has_time_allocation
          THEN Finish(q, [me.res EXCEPT !.err = "HasAllocation"])
          ELSE \E r \in {PackNow(me.task_id)} :
                  /\ UNCHANGED last
                  /\ IF me.op = "scheduleTask" \/ r.remaining = 0
                     THEN Proceed(q, [me EXCEPT !.pc = "insert",
                                                !.sessions = r.sessions,
                                                !.remaining = r.remaining,
                                                !.res = [@ EXCEPT !.method = "normal"]])
                     ELSE Proceed(q, [me EXCEPT !.pc = "find",
                                                !.remaining = r.remaining])

\* find_bumpable_slots and the selection of to_bump
Find(q) ==
    /\ requests[q].pc = "find"
    /\ UNCHANGED <<scheduled_slots, activity_log, next_slot_id>>
    /\ LET me == requests[q]
           task == tasks[me.task_id]
           candidates == find_bumpable_slots(tasks, scheduled_slots, task.priority,
                                             RangeStart(task), RangeEnd(task))
           sel == SelectToBump(candidates, me.remaining, <<>>, 0)
       IN IF candidates = <<>> \/ sel.accumulated_hours < me.remaining
          THEN Finish(q, [me.res EXCEPT !.err = "NoBumpableCapacity",
                                        !.shortfall = me.remaining])
          ELSE /\ UNCHANGED last
               /\ Proceed(q, [me EXCEPT
                      !.pc = "delete", !.to_bump = sel.to_bump,
                      !.res = [@ EXCEPT !.shortfall = me.remaining,
                                        !.evicted = SeqRange(sel.to_bump),
                                        !.bumped_tasks =
                                            { c.task_id : c \in SeqRange(sel.to_bump) }]])

\* one db.delete of the loop "Remove bumped slots"
Delete(q) ==
    /\ requests[q].pc = "delete"
    /\ LET me == requests[q]
       IN /\ scheduled_slots' =
                 { s \in scheduled_slots : s.id # Head(me.to_bump).id }
          /\ Proceed(q, [me EXCEPT !.to_bump = Tail(@),
                                   !.pc = IF Tail(me.to_bump) = <<>>
                                          THEN "repack" ELSE "delete"])
    /\ UNCHANGED <<activity_log, next_slot_id, last>>

\* the second create_task_sessions of attempt_with_bumping
Repack(q) ==
    /\ requests[q].pc = "repack"
    /\ UNCHANGED <<scheduled_slots, activity_log, next_slot_id>>
    /\ LET me == requests[q]
       IN \E r \in {PackNow(me.task_id)} :
              IF r.remaining > 0
              THEN Finish(q, [me.res EXCEPT !.err = "PostBumpRepackFailure",
                                            !.hours_remaining = r.remaining])
              ELSE /\ UNCHANGED last
                   /\ Proceed(q, [me EXCEPT !.pc = "insert", !.sessions = r.sessions,
                                            !.remaining = 0,
                                            !.res = [@ EXCEPT !.method = "with_bumping"]])

\* one db.insert of a session the handler packed
Insert(q) ==
    /\ requests[q].pc = "insert"
    /\ requests[q].sessions # <<>>
    /\ next_slot_id <= MaxSlotId
    /\ LET me == requests[q]
           row == InsertedRow(Head(me.sessions), next_slot_id)
       IN /\ scheduled_slots' = scheduled_slots \cup {row}
          /\ next_slot_id' = next_slot_id + 1
          /\ Proceed(q, [me EXCEPT !.sessions = Tail(@),
                                   !.res = [@ EXCEPT !.produced = @ \cup {row}]])
    /\ UNCHANGED <<activity_log, last>>

\* the sessions are in: auto_schedule_task and the bump-free
\* attempt_with_bumping return, the other goes on to the bumped tasks
Inserted(q) ==
    /\ requests[q].pc = "insert"
    /\ requests[q].sessions = <<>>
    /\ UNCHANGED <<scheduled_slots, activity_log, next_slot_id>>
    /\ LET me == requests[q]
       IN IF me.res.method = "with_bumping"
          THEN /\ UNCHANGED last
               /\ Proceed(q, [me EXCEPT !.pc = "rehome",
                                        !.bumped = SetToSeq(me.res.bumped_tasks),
                                        !.res = [@ EXCEPT !.scheduled = TRUE]])
          ELSE Finish(q, [me.res EXCEPT !.scheduled = (me.remaining = 0),
                                        !.hours_remaining = me.remaining])

\* one turn of the loop "Try to reschedule bumped tasks"
Rehome(q) ==
    /\ requests[q].pc = "rehome"
    /\ requests[q].bumped # <<>>
    /\ LET me == requests[q]
       IN \E r \in {RehomeBumped(tasks, <<Head(me.bumped)>>,
                                [rescheduled |-> {}, failures |-> {}, produced |-> {}],
                                scheduled_slots, next_slot_id)} :
              /\ r.next_id <= MaxSlotId + 1
              /\ scheduled_slots' = r.slots
              /\ next_slot_id' = r.next_id
              /\ Proceed(q, [me EXCEPT
                     !.bumped = Tail(@),
                     !.res = [@ EXCEPT !.rescheduled = @ \cup r.rescheduled,
                                       !.failed_reschedules = @ \cup r.failures,
                                       !.produced = @ \cup r.produced,
                                       !.rehomed = @ \cup r.produced]])
    /\ UNCHANGED <<activity_log, last>>

\* "Log bumping activity" and the return of attempt_with_bumping
Log(q) ==
    /\ requests[q].pc = "rehome"
    /\ requests[q].bumped = <<>>
    /\ Len(activity_log) < MaxLog
    /\ LET me == requests[q]
       IN /\ activity_log' = Append(activity_log,
                 [action |-> "bump_tasks", entity_type |-> "task",
                  entity_id |-> me.task_id, bumped |-> me.res.bumped_tasks,
                  rescheduled |-> me.res.rescheduled,
                  failed |-> me.res.failed_reschedules])
          /\ Finish(q, me.res)
    /\ UNCHANGED <<scheduled_slots, next_slot_id>>

\* a session is put on the calendar by hand before any request arrives
Prepare(task_id, start_datetime, end_datetime) ==
    /\ \A q \in RequestIds : requests[q].pc = "idle"
    /\ CreateManualSlot(task_id, start_datetime, end_datetime, FALSE)

\* two requests for a schedule, their store calls interleaved
NextConcurrent ==
    \/ \E t \in TaskIds, w \in ManualTimes : Prepare(t, w[1], w[2])
    \/ \E q \in RequestIds, t \in TaskIds, f \in BOOLEAN : Arrive(q, t, f)
    \/ \E q \in RequestIds : Pack(q)
    \/ \E q \in RequestIds : Find(q)
    \/ \E q \in RequestIds : Delete(q)
    \/ \E q \in RequestIds : Repack(q)
    \/ \E q \in RequestIds : Insert(q)
    \/ \E q \in RequestIds : Inserted(q)
    \/ \E q \in RequestIds : Rehome(q)
    \/ \E q \in RequestIds : Log(q)

\* the scheduling operations
NextSchedule ==
    \/ \E t \in TaskIds \cup {UnknownId} : ScheduleTask(t)
    \/ ScheduleAll
    \/ \E t \in TaskIds : ScheduleWithBumping(t)
    \/ \E t \in TaskIds, w \in ManualTimes : CreateManualSlot(t, w[1], w[2], FALSE)

\* scheduling over sessions that are completed or fixed, with the advisor
NextMarks ==
    \/ \E t \in TaskIds :
           ScheduleTask(t) /\ next_slot_id' <= MaxMarkedSlotId + 1
    \/ \E t \in TaskIds :
           ScheduleWithBumping(t) /\ next_slot_id' <= MaxMarkedSlotId + 1
    \/ \E t \in TaskIds, w \in ManualTimes, f \in BOOLEAN :
           CreateManualSlot(t, w[1], w[2], f) /\ next_slot_id' <= MaxMarkedSlotId + 1
    \/ \E id \in SlotIds : CompleteSlot(id)
    \/ \E w \in SuggestWindows, m \in {"interactive", "auto"}, n \in SuggestLimits :
           Suggest(w[1], w[2], m, n)

\* the recurrence operations
NextRecurrence ==
    \/ \E a \in TaskIds \cup {UnknownId} : Generate(a, NULL)
    \/ \E id \in SlotIds, e \in EditChoices : EditThisOnly(id, e[1], e[2])
    \/ \E id \in SlotIds : DeleteInstance(id)
    \/ \E id \in SlotIds : DeleteSlot(id)

\* editing single occurrences and regenerating their patterns
NextEdits ==
    \/ \E a \in TaskIds : Generate(a, NULL)
    \/ \E id \in SlotIds, e \in EditChoices : EditThisOnly(id, e[1], e[2])

\* moving sessions by hand, on the advisor's proposal and by the advisor
NextMoves ==
    \/ \E id \in SlotIds, e \in EditChoices : EditThisOnly(id, e[1], e[2])
    \/ \E id \in SlotIds, w \in MoveTimes : MoveSlot(id, w)
    \/ \E id \in SlotIds, w \in MoveTimes : AcceptReallocation(id, w)
    \/ \E w \in SuggestWindows, m \in {"interactive", "auto"}, n \in SuggestLimits :
           Suggest(w[1], w[2], m, n)

\* creating time allocations, each generating its sessions
NextPatterns ==
    \E t \in TaskIds, rule \in PatternRules, d \in PatternDurations,
       h \in PatternTimes, from \in PatternStarts, n \in PatternSpans :
        CreateTimeAllocation(t, rule, d, h, from, from + n)

\* conflict queries on a calendar of manual, completed and deleted sessions
NextConflicts ==
    \/ \E t \in TaskIds, w \in ManualTimes :
           CreateManualSlot(t, w[1], w[2], FALSE) /\ next_slot_id' <= MaxMarkedSlotId + 1
    \/ \E id \in SlotIds : CompleteSlot(id)
    \/ \E id \in SlotIds : DeleteSlot(id)
    \/ \E w \in ProbeWindows, xt \in ProbeTasks, xs \in SlotIds \cup {NULL} :
           CheckConflict(w[1], w[2], xt, xs)
    \/ \E w \in ProbeWindows, xt \in ProbeTasks : AskAvailableTime(w[1], w[2], xt)

\* scheduling, bumping, reallocation and recurrence on one calendar
NextEngine ==
    \/ NextSchedule
    \/ \E w \in SuggestWindows, m \in {"interactive", "auto"}, n \in SuggestLimits :
           Suggest(w[1], w[2], m, n)
    \/ \E a \in TaskIds : Generate(a, NULL)

\* batches on calendars that take manual sessions and whose sessions are
\* completed and deleted
NextBatch ==
    \/ ScheduleAll
    \/ \E w \in ManualTimes :
           CreateManualSlot(1, w[1], w[2], FALSE) /\ next_slot_id' <= MaxMarkedSlotId
    \/ \E id \in SlotIds : CompleteSlot(id)
    \/ \E id \in SlotIds : DeleteSlot(id)

\* the advisor on a calendar of recurring, manual and completed sessions
NextAdvisor ==
    \/ \E w \in AdvisorWindows, m \in {"interactive", "auto"}, n \in {1, 2} :
           Suggest(w[1], w[2], m, n)
    \/ \E w \in ManualTimes : CreateManualSlot(3, w[1], w[2], FALSE)
    \/ \E id \in SlotIds : CompleteSlot(id)

\* work windows and feasibility on calendars of several settings
NextAvailability ==
    \/ \E t \in TaskIds : ScheduleTask(t) /\ next_slot_id' <= MaxMarkedSlotId
    \/ \E t \in TaskIds, w \in ManualTimes :
           CreateManualSlot(t, w[1], w[2], FALSE) /\ next_slot_id' <= MaxMarkedSlotId
    \/ \E id \in SlotIds : CompleteSlot(id)
    \/ \E t \in TaskIds \cup {UnknownId} : Feasible(t)
    \/ \E r \in WindowRanges : AskWindows(r[1], r[2])

\* edits, moves, reallocations and deletions of the occurrences of the first
\* task's pattern, and generate
NextOverrides ==
    \/ \E s \in { r \in scheduled_slots : r.task_id = 1 } : EditThisOnly(s.id, NULL, 15)
    \/ \E s \in { r \in scheduled_slots : r.task_id = 1 } : MoveSlot(s.id, At(1, 9))
    \/ \E s \in { r \in scheduled_slots : r.task_id = 1 } :
           AcceptReallocation(s.id, At(0, 15))
    \/ \E w \in SuggestWindows : Suggest(w[1], w[2], "auto", 1)
    \/ \E s \in { r \in scheduled_slots : r.task_id = 1 } : DeleteInstance(s.id)
    \/ Generate(1, NULL)

\* the sessions of Wednesday, the last day of the patterns that are split
WednesdaySlots ==
    { s \in scheduled_slots : s.start_datetime # NULL /\ DateOf(s.start_datetime) = 2 }

\* splitting recurring tasks, overriding single occurrences and regenerating
\* the patterns
NextSplit ==
    \/ \E id \in SlotIds, rule \in {<<>>, <<MondayWednesday>>}, e \in EditChoices :
           EditThisAndFuture(id, rule, e[1], e[2]) /\ next_slot_id' <= MaxSplitSlotId + 1
    \/ \E t \in DOMAIN tasks : RegenerateAll(t) /\ next_slot_id' <= MaxSplitSlotId + 1
    \/ \E s \in WednesdaySlots : EditThisOnly(s.id, NULL, 15)
    \/ \E s \in WednesdaySlots : DeleteInstance(s.id)
    \/ Generate(UnknownId, NULL)
    \/ \E id \in SlotIds \cup {UnknownId} : EditInvalidMode(id, "all")

Next == NextSchedule

Spec == Init /\ [][Next]_vars

SpecMarks == InitMarks /\ [][NextMarks]_vars

SpecRecurrence == InitRecurrence /\ [][NextRecurrence]_vars

SpecEdits == InitRecurrence /\ [][NextEdits]_vars

SpecMoves == InitRecurrence /\ [][NextMoves]_vars

SpecConcurrent == InitMarks /\ [][NextConcurrent]_vars

SpecPatterns == InitPatterns /\ [][NextPatterns]_vars

SpecEngine == Init /\ [][NextEngine]_vars

SpecBatch == Init /\ [][NextBatch]_vars

SpecSplit == InitSplit /\ [][NextSplit]_vars

SpecAdvisor == InitAdvisor /\ [][NextAdvisor]_vars

SpecOverrides == InitRecurrence /\ [][NextOverrides]_vars

SpecAvailability == InitAvailability /\ [][NextAvailability]_vars

SpecConflicts == InitConflicts /\ [][NextConflicts]_vars

----------------------------------------------------------------------------
(* Properties *)

\* the summed duration of the active sessions of a task: the rows that are
\* neither suppressed nor completed
ActiveHours(S, task_id) ==
    LET rows == { s \in S : /\ s.task_id = task_id
                            /\ NotSuppressed(s)
                            /\ ~s.completed
                            /\ DurationHours(s) # NULL }
    IN SumOver(rows, [s \in rows |-> DurationHours(s)])

\* the rows of S that belong to a task
SessionsOf(S, task_id) == { s \in S : s.task_id = task_id }

SchedulingOps == {"scheduleTask", "scheduleAll", "scheduleWithBumping"}

\* C1: every session the packer produced in the last scheduleTask,
\* scheduleAll or scheduleWithBumping (its re-homing of evicted tasks
\* included) lasts at most MAX_SESSION_HOURS and at least the
\* min_session_hours of the task it belongs to.
SessionLengthWithinLimits ==
    \A s \in last.produced :
        /\ DurationHours(s) <= Hours(MAX_SESSION_HOURS)
        /\ DurationHours(s) >= tasks[s.task_id].min_session_hours

\* C2: when scheduleTask or scheduleWithBumping has reported scheduled = true
\* for a task, the durations of the task's active sessions in the store sum
\* to its estimated_hours (hours are whole here, so the 0.1h tolerance is
\* equality), whatever sessions the task owned before the call.
ScheduledMeansEstimatePlanned ==
    (/\ last.op \in {"scheduleTask", "scheduleWithBumping"}
     /\ last.scheduled)
    => ActiveHours(scheduled_slots, last.task_id)
           = tasks[last.task_id].estimated_hours

\* C3: a step of scheduleTask, scheduleAll or scheduleWithBumping leaves the
\* sessions of every task with has_time_allocation = true as they were: none
\* is created, deleted or moved, for the requester, a candidate or a
\* re-homed task alike.
AllocatedTasksUntouched ==
    [][last'.op \in SchedulingOps =>
           \A t \in DOMAIN tasks :
               tasks[t].has_time_allocation =>
                   SessionsOf(scheduled_slots', t) = SessionsOf(scheduled_slots, t)]_vars

\* C4: a step of scheduleWithBumping evicts only sessions of tasks whose
\* priority is below the requester's, and the sessions of every other task
\* whose priority is at least the requester's are the same after the step as
\* before it; the requester keeps the sessions it had.
BumpingSparesEqualAndHigherPriority ==
    [][(last'.op = "scheduleWithBumping" /\ last'.task_id \in DOMAIN tasks) =>
           /\ \A s \in scheduled_slots \ scheduled_slots' :
                  tasks[s.task_id].priority < tasks[last'.task_id].priority
           /\ \A s \in last'.evicted :
                  tasks[s.task_id].priority < tasks[last'.task_id].priority
           /\ \A t \in DOMAIN tasks :
                  (t # last'.task_id
                   /\ tasks[t].priority >= tasks[last'.task_id].priority)
                  => SessionsOf(scheduled_slots', t) = SessionsOf(scheduled_slots, t)
           /\ SessionsOf(scheduled_slots, last'.task_id) \subseteq scheduled_slots']_vars

\* C4, its case: scheduleWithBumping has evicted sessions while another task
\* with a priority at least the requester's holds sessions.
BumpedBesideEqualPriority ==
    /\ last.op = "scheduleWithBumping"
    /\ last.evicted # {}
    /\ \E t \in DOMAIN tasks :
           /\ t # last.task_id
           /\ tasks[t].priority >= tasks[last.task_id].priority
           /\ SessionsOf(scheduled_slots, t) # {}

CompletionIsTerminal ==
    [][\A s \in scheduled_slots :
           s.completed =>
               /\ \A r \in scheduled_slots' : r.id = s.id => r.completed
               /\ last'.op = "scheduleWithBumping" =>
                      \E r \in scheduled_slots' : r.id = s.id
               /\ last'.op = "suggest" =>
                      /\ \E r \in scheduled_slots' :
                             /\ r.id = s.id
                             /\ r.start_datetime = s.start_datetime
                             /\ r.end_datetime = s.end_datetime
                      /\ \A i \in DOMAIN last'.suggestions :
                             last'.suggestions[i] # s.id]_vars

\* C7: scheduleWithBumping never ends in PostBumpRepackFailure: whenever the
\* selected sessions reach the shortfall, the packing after their deletion
\* leaves no hours remaining.
RepackAfterBumpSucceeds ==
    last.op = "scheduleWithBumping" => last.err # "PostBumpRepackFailure"

\* C8: a step of scheduleWithBumping that fails with PostBumpRepackFailure
\* leaves the set of scheduled sessions as it was before the call.
RepackFailureRollsBack ==
    [][(last'.op = "scheduleWithBumping" /\ last'.err = "PostBumpRepackFailure")
           => scheduled_slots' = scheduled_slots]_vars

\* every instant of the work window of day d lies in an active session of
\* task_id
DayFullOf(S, task_id, d) ==
    /\ IsWorkWindow(d, calendar_settings)
    /\ \A k \in At(d, calendar_settings.work_start_time) ..
                (At(d, calendar_settings.work_end_time) - 1) :
           \E s \in SessionsOf(S, task_id) :
               /\ NotSuppressed(s)
               /\ ~s.completed
               /\ s.start_datetime # NULL
               /\ s.start_datetime <= k
               /\ k < s.end_datetime

\* the summed duration of a set of rows
HoursOf(rows) == SumOver(rows, [s \in rows |-> DurationHours(s)])

\* C9: when the work window of a day is full of the sessions of a
\* reschedulable task A, a step of scheduleWithBumping for a task B of higher
\* priority whose start date and deadline are that day evicts sessions of A
\* worth at least B's hours, reports B scheduled with its sessions on that
\* day, reports A rescheduled, and puts every re-homed session of A in time
\* that overlaps no session of B and no other session of A.
BumpedDayIsRehomedElsewhere ==
    [][\A A \in DOMAIN tasks :
           (/\ last'.op = "scheduleWithBumping"
            /\ last'.task_id \in DOMAIN tasks
            /\ A # last'.task_id
            /\ tasks[last'.task_id].start_date # NULL
            /\ tasks[last'.task_id].deadline = tasks[last'.task_id].start_date
            /\ tasks[A].priority < tasks[last'.task_id].priority
            /\ tasks[A].is_reschedulable
            /\ tasks[A].status # "completed"
            /\ SessionsOf(scheduled_slots, last'.task_id) = {}
            /\ DayFullOf(scheduled_slots, A, tasks[last'.task_id].start_date))
           => /\ last'.scheduled
              /\ HoursOf(SessionsOf(last'.evicted, A))
                     >= tasks[last'.task_id].estimated_hours
              /\ \A s \in SessionsOf(scheduled_slots', last'.task_id) :
                     DateOf(s.start_datetime) = tasks[last'.task_id].start_date
              /\ A \in last'.rescheduled
              /\ \A r \in SessionsOf(last'.rehomed, A) :
                     \A s \in scheduled_slots' \ {r} :
                         s.task_id \in {A, last'.task_id}
                         => ~Overlaps(s, r.start_datetime, r.end_datetime)]_vars

\* C10: right after a generate that succeeded, generate for the same
\* allocation and from_date creates no session and leaves the store and its
\* id counter as they are, whatever sessions, overrides and suppression
\* markers the store holds.
GenerateIsIdempotent ==
    (last.op = "generate" /\ last.err = "") =>
        LET again == generate_recurring_slots(time_allocations, scheduled_slots,
                                              next_slot_id, last.allocation_id,
                                              last.from_date)
        IN /\ again.err = ""
           /\ again.slots = scheduled_slots
           /\ again.next_id = next_slot_id

\* C10, its case: a generate has created sessions for an allocation whose
\* task also holds an override and a suppression marker.
GeneratedBesideOverrideAndMarker ==
    /\ last.op = "generate"
    /\ last.err = ""
    /\ last.generated # {}
    /\ \E a \in time_allocations :
           /\ a.id = last.allocation_id
           /\ \E s \in SessionsOf(scheduled_slots, a.task_id) :
                  s.is_override /\ s.start_datetime # NULL
           /\ \E s \in SessionsOf(scheduled_slots, a.task_id) :
                  s.is_override /\ s.start_datetime = NULL

RowOf(S, id) == CHOOSE s \in S : s.id = id

MovingOps == {"editInstance", "moveSlot", "suggest", "acceptReallocation"}

\* C13: once a session has an original_start, no move, edit or reallocation
\* of it changes that value.
OriginalStartStampedOnce ==
    [][last'.op \in MovingOps =>
          \A s \in scheduled_slots :
              s.original_start # NULL =>
                  \A r \in scheduled_slots' :
                      r.id = s.id => r.original_start = s.original_start]_vars

\* a handler run as a whole on the store (S, next_id)
RunWhole(S, next_id, op, task_id) ==
    IF op = "scheduleTask" THEN auto_schedule_task(tasks, S, next_id, task_id)
    ELSE attempt_with_bumping(tasks, S, next_id, task_id)

\* scheduled_slots after request a and then request b ran whole, from the
\* store the first of them found
OneAfterTheOther(a, b) ==
    LET first == RunWhole(history.before, history.before_id,
                          requests[a].op, requests[a].task_id)
    IN RunWhole(first.slots, first.next_id,
                requests[b].op, requests[b].task_id).slots

\* the rows of S without their ids
WithoutIds(S) ==
    { <<s.task_id, s.start_datetime, s.end_datetime, s.source, s.is_override,
        s.original_start, s.is_fixed, s.completed>> : s \in S }

\* S and R hold the same sessions, whatever ids they were given
SameSessions(S, R) ==
    /\ WithoutIds(S) = WithoutIds(R)
    /\ Cardinality(S) = Cardinality(R)

\* two active sessions of different tasks overlap
DoubleBooked(S) ==
    \E s \in S, r \in S :
        /\ s.task_id # r.task_id
        /\ ~s.completed /\ ~r.completed
        /\ NotSuppressed(s) /\ NotSuppressed(r)
        /\ s.start_datetime # NULL
        /\ Overlaps(r, s.start_datetime, s.end_datetime)

\* C14: when two scheduling requests have run with their store calls
\* interleaved, the sessions are those that one of the two serial orders
\* leaves, and no two tasks hold overlapping active sessions.
ConcurrentRequestsSerialize ==
    (\A q \in RequestIds : requests[q].pc = "done") =>
        /\ \/ SameSessions(scheduled_slots, OneAfterTheOther(1, 2))
           \/ SameSessions(scheduled_slots, OneAfterTheOther(2, 1))
        /\ ~DoubleBooked(scheduled_slots)

\* the summed duration of the sessions that could be bumped for task_id
BumpableHours(task_id) ==
    HoursOf(SeqRange(find_bumpable_slots(tasks, scheduled_slots,
                                         tasks[task_id].priority,
                                         RangeStart(tasks[task_id]),
                                         RangeEnd(tasks[task_id]))))

\* C15: a scheduleWithBumping whose shortfall exceeds the summed duration of
\* its bump candidates (none included) fails with NoBumpableCapacity, and a
\* call that fails so deletes no session, inserts none and writes no audit
\* record.
NoCapacityChangesNothing ==
    [][last'.op = "scheduleWithBumping" =>
          /\ (/\ last'.task_id \in DOMAIN tasks
              /\ PackNow(last'.task_id).remaining > BumpableHours(last'.task_id))
                 => last'.err = "NoBumpableCapacity"
          /\ last'.err = "NoBumpableCapacity"
                 => /\ scheduled_slots' = scheduled_slots
                    /\ next_slot_id' = next_slot_id
                    /\ activity_log' = activity_log]_vars

\* a call refused although some sessions could have been bumped
RefusedWithTooFewCandidates ==
    /\ last.op = "scheduleWithBumping"
    /\ last.err = "NoBumpableCapacity"
    /\ BumpableHours(last.task_id) > 0
    /\ BumpableHours(last.task_id) < last.shortfall

\* the tables are as they were
StoreUnchanged ==
    /\ scheduled_slots' = scheduled_slots
    /\ next_slot_id' = next_slot_id
    /\ tasks' = tasks
    /\ time_allocations' = time_allocations
    /\ blocked_times' = blocked_times
    /\ activity_log' = activity_log

\* C16: scheduleTask fails with HasAllocation on a task that has a time
\* allocation and with TaskNotFound on an unknown task id, and in both cases
\* leaves the store as it was.
ScheduleTaskRefusals ==
    [][last'.op = "scheduleTask" =>
          /\ last'.task_id \notin DOMAIN tasks
                 => (last'.err = "TaskNotFound" /\ StoreUnchanged)
          /\ (last'.task_id \in DOMAIN tasks
                 /\ tasks[last'.task_id].has_time_allocation)
                 => (last'.err = "HasAllocation" /\ StoreUnchanged)]_vars

\* scheduleTask refused for a task whose allocation has sessions on the
\* calendar
RefusedAllocatedTask ==
    /\ last.op = "scheduleTask"
    /\ last.err = "HasAllocation"
    /\ \E s \in scheduled_slots :
           s.task_id = last.task_id /\ s.source = "allocation"

\* C17: scheduleAll processes every task it selects and puts each in exactly
\* one of its lists scheduled, partial and failed: in scheduled exactly when
\* the sessions made for it leave none of its estimated hours, in failed
\* exactly when auto_schedule_task raises SchedulingError for it, which it
\* does for a task that has a time allocation.
BatchClassifiesEveryTask ==
    [][last'.op = "scheduleAll" =>
          LET batch == SeqRange(last'.batch)
          IN /\ batch = { t \in DOMAIN tasks :
                              NeedsScheduling(tasks, scheduled_slots, t) }
             /\ Len(last'.batch) = Cardinality(batch)
             /\ last'.all_scheduled \cup last'.all_partial \cup last'.all_failed
                    = batch
             /\ last'.all_scheduled \cap last'.all_partial = {}
             /\ last'.all_scheduled \cap last'.all_failed = {}
             /\ last'.all_partial \cap last'.all_failed = {}
             /\ \A t \in batch :
                    /\ t \in last'.all_scheduled <=>
                           HoursOf({ s \in last'.produced : s.task_id = t })
                               = tasks[t].estimated_hours
                    /\ t \in last'.all_failed <=> tasks[t].has_time_allocation
                    /\ t \in last'.all_failed =>
                           SessionsOf(scheduled_slots', t) = {}]_vars

\* a batch that scheduled one task fully and another in part
BatchWithWholeAndPartial ==
    /\ last.op = "scheduleAll"
    /\ last.all_scheduled # {}
    /\ last.all_partial # {}

\* C18: suggest in mode interactive changes no table: the sessions, the
\* tasks, the time allocations, the blocked times and the activity log are
\* after the call what they were before it.
InteractiveSuggestMutatesNothing ==
    [][(last'.op = "suggest" /\ last'.method = "interactive")
          => StoreUnchanged]_vars

\* an interactive suggest that had a session to propose
ProposedWithoutMoving ==
    /\ last.op = "suggest"
    /\ last.method = "interactive"
    /\ last.suggestions # <<>>

\* the allocation the last operation created or generated from
LastAllocation == CHOOSE a \in time_allocations : a.id = last.allocation_id

\* the last operation generated the sessions of FREQ=WEEKLY;BYDAY=MO,WE,FR,
\* 1.5h at 14:00, over three weeks from a Monday
GeneratedThreeWeeksOfMWF ==
    /\ last.op = "createTimeAllocation"
    /\ LastAllocation.rrule = MondayWednesdayFriday
    /\ LastAllocation.duration_hours = HalfHours(3)
    /\ LastAllocation.time_of_day = 14
    /\ DayCode(LastAllocation.start_date) = "MO"
    /\ LastAllocation.end_date = LastAllocation.start_date + 20

\* C19: generate for the pattern FREQ=WEEKLY;BYDAY=MO,WE,FR with duration
\* 1.5h and time 14:00 over three weeks from a Monday, for a task with no
\* sessions, creates exactly nine sessions: one on each Monday, Wednesday and
\* Friday of the range, from 14:00 to 15:30, no two overlapping, each with
\* source allocation and not an override.
WeeklyPatternYieldsNineSessions ==
    GeneratedThreeWeeksOfMWF =>
        LET a == LastAllocation
            days == { d \in a.start_date .. a.end_date :
                          DayCode(d) \in {"MO", "WE", "FR"} }
        IN (SessionsOf(scheduled_slots, a.task_id) = last.generated) =>
            /\ Cardinality(last.generated) = 9
            /\ { s.start_datetime : s \in last.generated }
                   = { At(d, 14) : d \in days }
            /\ \A s \in last.generated :
                   /\ s.task_id = a.task_id
                   /\ s.end_datetime = s.start_datetime + HalfHours(3)
                   /\ 2 * (s.end_datetime - s.start_datetime) = Hours(3)
                   /\ s.source = "allocation"
                   /\ ~s.is_override
            /\ \A s \in last.generated, r \in last.generated :
                   s # r => ~Overlaps(r, s.start_datetime, s.end_datetime)

\* such a pattern was generated for a task that had no session
NineSessionsGenerated ==
    /\ GeneratedThreeWeeksOfMWF
    /\ SessionsOf(scheduled_slots, LastAllocation.task_id) = last.generated
    /\ last.generated # {}

\* a task of 6h in sessions of at least 2h, due three days after the day
\* its range starts, with 8h of work time a day
SixHourTask(task_id) ==
    /\ task_id \in DOMAIN tasks
    /\ ~tasks[task_id].has_time_allocation
    /\ tasks[task_id].estimated_hours = Hours(6)
    /\ tasks[task_id].min_session_hours = Hours(2)
    /\ tasks[task_id].deadline = RangeStart(tasks[task_id]) + 3
    /\ calendar_settings.work_end_time - calendar_settings.work_start_time = 8

\* C20: scheduleTask for a task of 6h with min_session 2h and a deadline
\* three work days out, on a calendar of 8h work days with no booking of any
\* kind, creates sessions that total 6h on at most three days and reports
\* remaining 0 and scheduled true.
SixHoursFitInThreeDays ==
    [][(/\ last'.op = "scheduleTask"
        /\ SixHourTask(last'.task_id)
        /\ scheduled_slots = {}
        /\ blocked_times = {})
          => /\ last'.err = ""
             /\ last'.scheduled
             /\ last'.hours_remaining = 0
             /\ scheduled_slots' = last'.produced
             /\ HoursOf(last'.produced) = Hours(6)
             /\ Cardinality({ DateOf(s.start_datetime) : s \in last'.produced }) <= 3
             /\ \A s \in last'.produced :
                    /\ s.task_id = last'.task_id
                    /\ DateOf(s.start_datetime) <= tasks[last'.task_id].deadline]_vars

\* the 6h task was scheduled on the empty calendar
SixHoursScheduledOnEmptyCalendar ==
    /\ last.op = "scheduleTask"
    /\ SixHourTask(last.task_id)
    /\ blocked_times = {}
    /\ last.produced # {}
    /\ scheduled_slots = last.produced

\* the rows a conflict query looks at: not completed, not a suppression
\* marker, not of the excluded task and not the excluded slot
ActiveFor(exclude_task_id, exclude_slot_id) ==
    { s \in scheduled_slots :
          /\ ~s.completed
          /\ s.start_datetime # NULL
          /\ s.end_datetime # NULL
          /\ (exclude_task_id = NULL \/ s.task_id # exclude_task_id)
          /\ (exclude_slot_id = NULL \/ s.id # exclude_slot_id) }

\* the instants from lo up to hi
Instants(lo, hi) == lo .. (hi - 1)

\* C21: hasConflict(start, end) answers true exactly when some active slot
\* (not completed, not a suppression marker, not excluded by task or slot
\* id) or some blocked time satisfies NOT(existing.end <= start OR
\* existing.start >= end), which is when the two intervals share an instant;
\* the test is symmetric, and an interval that only touches [start, end) at
\* an endpoint does not conflict with it.
ConflictIsSharedTime ==
    last.op = "hasConflict" =>
        LET lo == last.window[1]
            hi == last.window[2]
            rows == ActiveFor(last.task_id, last.slot_id) \cup blocked_times
            probe == [start_datetime |-> lo, end_datetime |-> hi]
        IN /\ last.conflict <=>
                  \E x \in rows :
                      ~(x.end_datetime <= lo \/ x.start_datetime >= hi)
           /\ last.conflict <=>
                  \E x \in rows :
                      Instants(x.start_datetime, x.end_datetime)
                          \cap Instants(lo, hi) # {}
           /\ \A x \in rows :
                  Overlaps(x, lo, hi)
                      <=> Overlaps(probe, x.start_datetime, x.end_datetime)
           /\ (\A x \in rows : x.end_datetime <= lo \/ x.start_datetime >= hi)
                  => ~last.conflict

\* a query that touches a blocked time and an active slot at its two ends,
\* beside a completed slot and a suppression marker, and finds no conflict
TouchingIsNoConflict ==
    /\ last.op = "hasConflict"
    /\ ~last.conflict
    /\ \E b \in blocked_times : b.end_datetime = last.window[1]
    /\ \E s \in ActiveFor(last.task_id, last.slot_id) :
           s.start_datetime = last.window[2]
    /\ \E s \in scheduled_slots : s.completed
    /\ \E s \in scheduled_slots : ~NotSuppressed(s)

\* the session lies within the work hours of a work day that is not excluded
InWorkWindow(s) ==
    LET d == DateOf(s.start_datetime)
    IN /\ IsWorkWindow(d, calendar_settings)
       /\ At(d, calendar_settings.work_start_time) <= s.start_datetime
       /\ s.start_datetime < s.end_datetime
       /\ s.end_datetime <= At(d, calendar_settings.work_end_time)

\* C22: every session the packer produces lies inside a work window of the
\* calendar, overlaps no blocked time and overlaps no active session of
\* another task; and no operation of the engine (scheduling, bumping,
\* reallocation, recurrence) changes blocked_times.
PackedSessionsAreFree ==
    [][/\ blocked_times' = blocked_times
       /\ \A s \in last'.produced :
              /\ InWorkWindow(s)
              /\ \A b \in blocked_times' :
                     ~Overlaps(b, s.start_datetime, s.end_datetime)
              /\ \A r \in scheduled_slots' :
                     (r.task_id # s.task_id /\ ~r.completed /\ NotSuppressed(r))
                         => ~Overlaps(r, s.start_datetime, s.end_datetime)]_vars

\* sessions were packed around the blocked time and the sessions of another
\* task on the same day
PackedAroundBlockAndSessions ==
    /\ last.produced # {}
    /\ \E s \in last.produced :
           /\ \E b \in blocked_times :
                  DateOf(b.start_datetime) = DateOf(s.start_datetime)
           /\ \E r \in scheduled_slots :
                  /\ r.task_id # s.task_id
                  /\ r.start_datetime # NULL
                  /\ DateOf(r.start_datetime) = DateOf(s.start_datetime)

\* a session that is neither completed nor a suppression marker
IsActive(s) == ~s.completed /\ NotSuppressed(s) /\ s.start_datetime # NULL

\* C23: after any sequence of scheduleTask, scheduleAll and
\* scheduleWithBumping calls from a store with no overlapping sessions, no
\* two active sessions of the same task overlap in time.
NoTaskDoubleBookedAgainstItself ==
    \A s \in scheduled_slots, r \in scheduled_slots :
        (s.id # r.id /\ s.task_id = r.task_id /\ IsActive(s) /\ IsActive(r))
            => ~Overlaps(r, s.start_datetime, s.end_datetime)

\* the free ranges the packer walks for a task on the store (T, S): those of
\* every work window of the task's date range
PackerRanges(T, S, task_id) ==
    UNION { SeqRange(get_available_time_in_slot(T, S, w[1], w[2], task_id)) :
                w \in SeqRange(generate_available_slots(RangeStart(T[task_id]),
                                                       RangeEnd(T[task_id]),
                                                       calendar_settings)) }

\* C24: the packer keeps exact accounting: 0 <= remaining <= estimated_hours,
\* the durations of the sessions sum to estimated_hours - remaining, each
\* session starts at the start of a free range and no two in the same
\* range, the sessions are emitted in chronological order, none is emitted
\* once remaining has reached 0, and a task that does not fit comes back
\* partially scheduled with remaining > 0 and no error.
PackKeepsExactAccounting ==
    [][(last'.op = "scheduleTask" /\ last'.err = "")
          => LET task == tasks[last'.task_id]
                 ranges == PackerRanges(tasks, scheduled_slots, last'.task_id)
                 Earlier(s) == { r \in last'.produced : r.id < s.id }
             IN /\ 0 <= last'.hours_remaining
                /\ last'.hours_remaining <= task.estimated_hours
                /\ HoursOf(last'.produced)
                       = task.estimated_hours - last'.hours_remaining
                /\ last'.scheduled <=> (last'.hours_remaining = 0)
                /\ \A s \in last'.produced :
                       /\ \E g \in ranges :
                              /\ s.start_datetime = g[1]
                              /\ s.start_datetime < s.end_datetime
                              /\ s.end_datetime <= g[2]
                              /\ \A r \in last'.produced :
                                     (r.start_datetime >= g[1] /\ r.start_datetime < g[2])
                                         => r = s
                       /\ \A r \in Earlier(s) : r.end_datetime <= s.start_datetime
                       /\ HoursOf(Earlier(s)) < task.estimated_hours]_vars

\* a task that did not fit was packed in part
PackedInPart ==
    /\ last.op = "scheduleTask"
    /\ last.err = ""
    /\ last.hours_remaining > 0
    /\ last.produced # {}
    /\ \E s \in scheduled_slots : s.task_id # last.task_id

\* the instant t lies in a row of the set rows
CoveredBy(rows, t) ==
    \E x \in rows : x.start_datetime <= t /\ t < x.end_datetime

\* C25: freeRanges(window, excludeTaskId) returns exactly the complement,
\* inside the window, of the union of the active sessions of the other tasks
\* and the blocked times: the ranges are non-empty, sorted, pairwise
\* disjoint and inside the window, none overlaps a conflict, and every
\* instant of the window that no conflict covers lies in one of them, also
\* when conflicts overlap or nest.
FreeRangesAreTheComplement ==
    last.op = "freeRanges" =>
        LET lo == last.window[1]
            hi == last.window[2]
            rows == ActiveFor(last.task_id, NULL) \cup blocked_times
            n == Len(last.ranges)
        IN /\ \A i \in 1..n :
                  /\ last.ranges[i][1] < last.ranges[i][2]
                  /\ lo <= last.ranges[i][1]
                  /\ last.ranges[i][2] <= hi
                  /\ \A x \in rows :
                         ~Overlaps(x, last.ranges[i][1], last.ranges[i][2])
           /\ \A i \in 1..n, j \in 1..n :
                  i < j => last.ranges[i][2] <= last.ranges[j][1]
           /\ \A t \in Instants(lo, hi) :
                  ~CoveredBy(rows, t)
                      <=> \E i \in 1..n :
                              last.ranges[i][1] <= t /\ t < last.ranges[i][2]

\* the free ranges of a window in which a blocked time lies inside a session
\* and another conflict follows
FreeRangesAroundNestedConflicts ==
    /\ last.op = "freeRanges"
    /\ Len(last.ranges) >= 1
    /\ \E s \in ActiveFor(last.task_id, NULL), b \in blocked_times :
           /\ last.window[1] <= s.start_datetime
           /\ s.start_datetime < b.start_datetime
           /\ b.end_datetime < s.end_datetime
           /\ s.end_datetime <= last.window[2]

\* the sessions a batch produced for one task
ProducedFor(res, task_id) == { s \in res.produced : s.task_id = task_id }

\* C26: scheduleAll processes the selected tasks by deadline ascending and,
\* for equal deadlines, priority descending: the earlier task is packed
\* first, as if alone, and a later one only into time the earlier ones left
\* free; only tasks with no existing sessions, is_reschedulable = true,
\* status # completed and archived = false are selected.
BatchPacksInDeadlineOrder ==
    [][last'.op = "scheduleAll"
          => LET batch == last'.batch
                 n == Len(batch)
             IN /\ \A i \in 1..n :
                       /\ batch[i] \in DOMAIN tasks
                       /\ SessionsOf(scheduled_slots, batch[i]) = {}
                       /\ tasks[batch[i]].is_reschedulable
                       /\ tasks[batch[i]].status # "completed"
                       /\ ~tasks[batch[i]].archived
                /\ \A i \in 1..n, j \in 1..n :
                       i < j =>
                           /\ batch[i] # batch[j]
                           /\ \/ tasks[batch[i]].deadline < tasks[batch[j]].deadline
                              \/ /\ tasks[batch[i]].deadline = tasks[batch[j]].deadline
                                 /\ tasks[batch[i]].priority >= tasks[batch[j]].priority
                           /\ \A s \in ProducedFor(last', batch[i]),
                                 r \in ProducedFor(last', batch[j]) :
                                  /\ s.id < r.id
                                  /\ ~Overlaps(r, s.start_datetime, s.end_datetime)
                /\ n >= 1 =>
                       ProducedFor(last', batch[1])
                           = auto_schedule_task(tasks, scheduled_slots,
                                                next_slot_id, batch[1]).produced]_vars

\* a batch in which the task of higher priority went before one with the
\* same deadline and a lower id, both getting sessions
BatchPutHigherPriorityFirst ==
    /\ last.op = "scheduleAll"
    /\ Len(last.batch) >= 2
    /\ last.batch[1] > last.batch[2]
    /\ tasks[last.batch[1]].deadline = tasks[last.batch[2]].deadline
    /\ ProducedFor(last, last.batch[1]) # {}
    /\ ProducedFor(last, last.batch[2]) # {}

\* a comes strictly before b by (task priority ascending, task deadline
\* descending, session start ascending)
EvictedSooner(a, b) ==
    LET ta == tasks[a.task_id]
        tb == tasks[b.task_id]
    IN \/ ta.priority < tb.priority
       \/ ta.priority = tb.priority /\ ta.deadline > tb.deadline
       \/ /\ ta.priority = tb.priority
          /\ ta.deadline = tb.deadline
          /\ a.start_datetime < b.start_datetime

\* the sessions a request of the task may evict: of a task of lower
\* priority that is reschedulable and not completed, not a suppression
\* marker, starting within the requesting task's date range
Evictable(task_id) ==
    { s \in scheduled_slots :
          /\ s.task_id \in DOMAIN tasks
          /\ tasks[s.task_id].priority < tasks[task_id].priority
          /\ tasks[s.task_id].is_reschedulable
          /\ tasks[s.task_id].status # "completed"
          /\ s.start_datetime # NULL
          /\ RangeStart(tasks[task_id]) <= DateOf(s.start_datetime)
          /\ DateOf(s.start_datetime) <= RangeEnd(tasks[task_id]) }

EvictedTasksAreAccountedFor ==
    [][(last'.op = "scheduleWithBumping" /\ last'.evicted # {})
          => LET evicted_tasks == { e.task_id : e \in last'.evicted }
             IN /\ last'.err = ""
                /\ last'.scheduled
                /\ last'.method = "with_bumping"
                /\ last'.rescheduled \cup last'.failed_reschedules = evicted_tasks
                /\ last'.rescheduled \cap last'.failed_reschedules = {}
                /\ \A t \in last'.rescheduled :
                       HoursOf({ s \in SessionsOf(scheduled_slots', t) : IsActive(s) })
                           = tasks[t].estimated_hours]_vars

\* the log grew by exactly one record
OneRecordAppended ==
    /\ Len(activity_log') = Len(activity_log) + 1
    /\ SubSeq(activity_log', 1, Len(activity_log)) = activity_log

\* C29: every compound mutation is audited: a scheduleWithBumping that
\* deletes at least one session appends exactly one record naming the bumped,
\* rescheduled and failed task ids, an editInstance this_and_future and a
\* suggest in mode auto that moves a session append a record, and the log is
\* only ever appended to.
CompoundMutationsAreAudited ==
    [][/\ (last'.op = "scheduleWithBumping" /\ last'.evicted # {})
           => /\ OneRecordAppended
              /\ LET record == activity_log'[Len(activity_log')]
                 IN /\ record.bumped = { e.task_id : e \in last'.evicted }
                    /\ record.rescheduled = last'.rescheduled
                    /\ record.failed = last'.failed_reschedules
       /\ (last'.op = "editInstance" /\ last'.method = "this_and_future")
           => OneRecordAppended
       /\ (last'.op = "suggest" /\ last'.moved # NULL) => OneRecordAppended
       /\ Len(activity_log') >= Len(activity_log)
       /\ SubSeq(activity_log', 1, Len(activity_log)) = activity_log]_vars

\* the ids of the allocations of the session's task whose pattern holds the
\* session's start
OriginalAllocations(A, slot) ==
    { a.id : a \in { b \in A : /\ b.task_id = slot.task_id
                               /\ At(DateOf(slot.start_datetime), b.time_of_day)
                                      = slot.start_datetime } }

\* C30: after editInstance(slot, this_and_future) the original allocation
\* ends the day before the split date, the original task has no non-override
\* session that starts at or after the edited session's start, its sessions
\* before the split are unchanged, and a later regenerateAll or generate for
\* the original task creates no session on or after the split date.
SplitClosesTheOriginalPattern ==
    [][/\ (last'.op = "editInstance" /\ last'.method = "this_and_future")
           => LET task_id == last'.task_id
                  slot == SlotById(last'.slot_id)
                  split_date == DateOf(slot.start_datetime)
              IN /\ \A a \in time_allocations' :
                        a.id \in OriginalAllocations(time_allocations, slot)
                            => a.end_date = split_date - 1
                 /\ \A s \in SessionsOf(scheduled_slots', task_id) :
                        (s.start_datetime # NULL /\ ~s.is_override)
                            => s.start_datetime < slot.start_datetime
                 /\ \A s \in SessionsOf(scheduled_slots, task_id) :
                        (s.start_datetime # NULL
                           /\ s.start_datetime < slot.start_datetime)
                            => s \in scheduled_slots'
       /\ (last'.op = "regenerateAll" /\ last.op = "editInstance"
              /\ last.method = "this_and_future" /\ last'.task_id = last.task_id)
           => \A s \in last'.generated : DateOf(s.start_datetime) < last.from_date]_vars

\* C31: editInstance(slot, this_and_future) creates exactly one new task, a
\* copy of the owning task with has_time_allocation = true and start_date =
\* the split date, and exactly one new allocation owned by the clone that
\* takes newRrule, newDuration and newTime where supplied and the old
\* allocation's values otherwise, runs from the split date to the old
\* allocation's end_date of before the split, and whose generated sessions
\* all belong to the clone and start on or after the split date.
SplitClonesTaskAndAllocation ==
    [][(last'.op = "editInstance" /\ last'.method = "this_and_future")
           => LET slot == SlotById(last'.slot_id)
                  split_date == DateOf(slot.start_datetime)
                  owner == tasks[slot.task_id]
                  clone_id == Len(tasks) + 1
                  old_ids == { a.id : a \in time_allocations }
                  created == { a \in time_allocations' : a.id \notin old_ids }
                  new_rrule == last'.edit[1]
                  new_duration == last'.edit[2]
                  new_time == last'.edit[3]
              IN /\ Len(tasks') = clone_id
                 /\ SubSeq(tasks', 1, Len(tasks)) = tasks
                 /\ tasks'[clone_id] = [owner EXCEPT !.has_time_allocation = TRUE,
                                                     !.start_date = split_date]
                 /\ Cardinality(created) = 1
                 /\ \A new \in created :
                        /\ new.task_id = clone_id
                        /\ new.start_date = split_date
                        /\ \A old \in time_allocations :
                               old.id \in OriginalAllocations(time_allocations, slot)
                                   => /\ new.rrule = IF new_rrule # <<>> THEN new_rrule[1]
                                                     ELSE old.rrule
                                      /\ new.duration_hours =
                                             IF new_duration # NULL THEN new_duration
                                             ELSE old.duration_hours
                                      /\ new.time_of_day =
                                             IF new_time # NULL THEN new_time
                                             ELSE old.time_of_day
                                      /\ new.end_date = old.end_date
                 /\ \A s \in last'.generated :
                        /\ s.task_id = clone_id
                        /\ DateOf(s.start_datetime) >= split_date]_vars

\* the viable candidates of a window: the future sessions of reschedulable
\* tasks, not completed, that fit in the window and whose relocation to its
\* start shares no instant with another active session or a blocked time
ViableCandidates(lo, hi) ==
    { s \in scheduled_slots :
          /\ s.task_id \in DOMAIN tasks
          /\ IsActive(s)
          /\ s.start_datetime > lo
          /\ tasks[s.task_id].is_reschedulable
          /\ tasks[s.task_id].status # "completed"
          /\ lo + DurationHours(s) <= hi
          /\ \A k \in Instants(lo, lo + DurationHours(s)) :
                 /\ ~CoveredBy(ActiveFor(NULL, s.id), k)
                 /\ ~CoveredBy(blocked_times, k) }

\* C32: suggest in mode auto with at least one viable candidate moves exactly
\* one session, the highest-scoring viable one, to the start of the window
\* with its duration preserved, marks it is_override and changes no other
\* session; the moved session then overlaps no other active session and no
\* blocked time and ends at or before the end of the window.
AutoMovesTheBestCandidate ==
    [][(/\ last'.op = "suggest"
        /\ last'.method = "auto"
        /\ ViableCandidates(last'.window[1], last'.window[2]) # {})
           => LET lo == last'.window[1]
                  hi == last'.window[2]
                  V == ViableCandidates(lo, hi)
              IN \E m \in V :
                    /\ last'.moved = m.id
                    /\ \A v \in V : calculate_benefit_score(tasks, m)
                                        >= calculate_benefit_score(tasks, v)
                    /\ \E n \in scheduled_slots' :
                           /\ n.id = m.id
                           /\ scheduled_slots' \ {n} = scheduled_slots \ {m}
                           /\ n.start_datetime = lo
                           /\ n.end_datetime = lo + DurationHours(m)
                           /\ n.end_datetime <= hi
                           /\ n.is_override
                           /\ \A k \in Instants(lo, n.end_datetime) :
                                  /\ ~CoveredBy({ s \in scheduled_slots' \ {n} :
                                                      IsActive(s) }, k)
                                  /\ ~CoveredBy(blocked_times, k)]_vars

\* C33: the list suggest returns is the maxSuggestions highest-scoring
\* members of the set of all viable candidates, sorted by score descending:
\* no viable candidate that is left out has a higher score than one that is
\* returned.
SuggestionsAreTheBestViable ==
    [][(last'.op = "suggest" /\ last'.method = "interactive")
           => LET V == ViableCandidates(last'.window[1], last'.window[2])
                  L == last'.suggestions
                  returned == { L[i] : i \in 1..Len(L) }
              IN /\ Len(L) = Min(last'.limit, Cardinality(V))
                 /\ Cardinality(returned) = Len(L)
                 /\ returned \subseteq { v.id : v \in V }
                 /\ \A i \in 1..Len(L), j \in 1..Len(L) :
                        i < j => calculate_benefit_score(tasks, SlotById(L[i]))
                                    >= calculate_benefit_score(tasks, SlotById(L[j]))
                 /\ \A v \in V, i \in 1..Len(L) :
                        v.id \notin returned
                            => calculate_benefit_score(tasks, v)
                                  <= calculate_benefit_score(tasks, SlotById(L[i]))]_vars

\* the instants of the work windows from the task's start date (or today) to
\* its deadline (or a year from today) that no blocked time and no active
\* session of another task covers
FreeInstants(task_id) ==
    LET task == tasks[task_id]
        first == IF task.start_date # NULL THEN task.start_date ELSE today
        final == IF task.deadline # NULL THEN task.deadline
                 ELSE today + DefaultRangeDays
    IN { k \in At(first, 0) .. (At(final + 1, 0) - 1) :
             /\ DayCodes[(DateOf(k) % 7) + 1] \in
                    (IF calendar_settings.work_schedule = "custom"
                     THEN calendar_settings.custom_days
                     ELSE IF calendar_settings.work_schedule = "all_week"
                     THEN {"MO", "TU", "WE", "TH", "FR", "SA", "SU"}
                     ELSE {"MO", "TU", "WE", "TH", "FR"})
             /\ DateOf(k) \notin calendar_settings.excluded_dates
             /\ At(DateOf(k), calendar_settings.work_start_time) <= k
             /\ k < At(DateOf(k), calendar_settings.work_end_time)
             /\ ~CoveredBy(ActiveFor(task_id, NULL), k)
             /\ ~CoveredBy(blocked_times, k) }

\* C34: feasible(task) reports feasible = true iff the total length of the
\* free ranges, the task's own sessions left out, over the work windows from
\* start_date (or today) to the deadline (or today + 365 days) is at least
\* estimated_hours, and shortfall = max(0, required - available); so
\* feasible is true iff the shortfall is 0; and the call changes nothing.
FeasibleIffEnoughFreeTime ==
    [][(last'.op = "feasible" /\ last'.task_id \in DOMAIN tasks)
           => LET available == Cardinality(FreeInstants(last'.task_id))
                  required == tasks[last'.task_id].estimated_hours
              IN /\ last'.feasible <=> (available >= required)
                 /\ last'.required_hours = required
                 /\ last'.available_hours = available
                 /\ last'.shortfall = (IF required > available
                                       THEN required - available ELSE 0)
                 /\ last'.feasible <=> (last'.shortfall = 0)
                 /\ StoreUnchanged
                 /\ calendar_settings' = calendar_settings]_vars

\* a task was found infeasible by less than its own sessions' hours, beside
\* a session of another task
InfeasibleBesideOwnSessions ==
    /\ last.op = "feasible"
    /\ last.task_id \in DOMAIN tasks
    /\ ~last.feasible
    /\ last.shortfall > 0
    /\ \E s \in scheduled_slots : s.task_id = last.task_id /\ IsActive(s)
    /\ \E s \in scheduled_slots : s.task_id # last.task_id /\ IsActive(s)

\* C35: when feasible(task) reports false in a state, scheduleTask(task) run
\* in that state does not report scheduled = true.
InfeasibleIsNeverScheduled ==
    [][(/\ last'.op = "scheduleTask"
        /\ last'.task_id \in DOMAIN tasks
        /\ ~check_deadline_feasibility(tasks, scheduled_slots, last'.task_id).feasible)
           => ~last'.scheduled]_vars

\* scheduleTask placed a part of a task that is not feasible
InfeasibleTaskPackedInPart ==
    /\ last.op = "scheduleTask"
    /\ last.err = ""
    /\ ~last.scheduled
    /\ last.hours_remaining > 0
    /\ last.task_id \in DOMAIN tasks
    /\ ~check_deadline_feasibility(tasks, scheduled_slots, last.task_id).feasible

\* C36: windows(startDate, endDate, settings) holds a window for a day d of
\* [startDate, endDate] iff d's weekday is in the active work-day set and d
\* is not excluded; there is exactly one window per such day, from
\* work_start_time to work_end_time, in chronological order, and the list is
\* empty when startDate > endDate.
WindowsAreTheWorkDays ==
    last.op = "windows" =>
        LET W == last.windows
            work_days == IF calendar_settings.work_schedule = "custom"
                         THEN calendar_settings.custom_days
                         ELSE IF calendar_settings.work_schedule = "all_week"
                         THEN {"MO", "TU", "WE", "TH", "FR", "SA", "SU"}
                         ELSE {"MO", "TU", "WE", "TH", "FR"}
            expected == { d \in last.dates[1] .. last.dates[2] :
                              /\ DayCodes[(d % 7) + 1] \in work_days
                              /\ d \notin calendar_settings.excluded_dates }
        IN /\ { DateOf(W[i][1]) : i \in 1..Len(W) } = expected
           /\ Len(W) = Cardinality(expected)
           /\ \A i \in 1..Len(W) :
                  LET d == DateOf(W[i][1])
                  IN W[i] = <<At(d, calendar_settings.work_start_time),
                              At(d, calendar_settings.work_end_time)>>
           /\ \A i \in 1..Len(W), j \in 1..Len(W) : i < j => W[i][1] < W[j][1]
           /\ (last.dates[1] > last.dates[2]) => W = <<>>

\* the windows of a whole week with an excluded day
WeekWithExcludedDay ==
    /\ last.op = "windows"
    /\ last.dates = <<0, 6>>
    /\ calendar_settings.excluded_dates # {}
    /\ Len(last.windows) = 6

\* C37: once an occurrence of a pattern was edited in mode this_only or
\* deleted, no later edits, moves, reallocations or deleteInstance of that
\* session followed by a generate recreate a session at the occurrence's
\* start in the pattern.
SuppressionIsPermanent ==
    [][last'.op = "generate"
          => \A r \in last'.generated :
                 <<r.task_id, r.start_datetime>> \notin
                     (history.edited \cup history.deleted)]_vars

\* C38: the overrides of single occurrences survive a split: when an
\* occurrence of the original pattern on or after the split date was edited
\* or deleted before the split, the sessions generated for the clone hold no
\* session at that occurrence's start in the pattern.
OverridesSurviveTheSplit ==
    [][(last'.op = "editInstance" /\ last'.method = "this_and_future")
           => \A r \in last'.generated :
                  \A o \in history.edited \cup history.deleted :
                      (o[1] = last'.task_id /\ DateOf(o[2]) >= last'.from_date)
                          => r.start_datetime # o[2]]_vars

\* C40: the recurrence operations fail without changing the store:
\* regenerateAll on a task with no allocation fails with
\* NoAllocationsForTask, generate on an unknown allocation id fails with
\* AllocationNotFound, and editInstance with a mode that is neither this_only
\* nor this_and_future fails with InvalidEditMode; sessions, tasks and
\* allocations are then as they were.
RecurrenceRefusals ==
    [][/\ (/\ last'.op = "regenerateAll"
           /\ ~\E a \in time_allocations : a.task_id = last'.task_id)
              => (last'.err = "NoAllocationsForTask" /\ StoreUnchanged)
       /\ (/\ last'.op = "generate"
           /\ ~\E a \in time_allocations : a.id = last'.allocation_id)
              => (last'.err = "AllocationNotFound" /\ StoreUnchanged)
       /\ (/\ last'.op = "editInstance"
           /\ last'.method \notin {"this_only", "this_and_future"})
              => /\ last'.err # ""
                 /\ StoreUnchanged
                 /\ (\E s \in scheduled_slots :
                        /\ s.id = last'.slot_id
                        /\ s.source = "allocation"
                        /\ \E a \in time_allocations : a.task_id = s.task_id)
                        => last'.err = "InvalidEditMode"]_vars

\* regenerateAll was refused for a task with no allocation after a split
RefusedAfterSplit ==
    /\ last.op = "regenerateAll"
    /\ last.err = "NoAllocationsForTask"
    /\ Len(tasks) > 3
    /\ scheduled_slots # {}

\* C39: scheduleAll is idempotent: a second scheduleAll right after a first
\* one creates no session and leaves the store as it is.
BatchIsIdempotent ==
    [][(last.op = "scheduleAll" /\ last'.op = "scheduleAll")
           => (last'.produced = {} /\ StoreUnchanged)]_vars

\* a scheduleAll that selected tasks and could place none of them
BatchFoundNoRoom ==
    /\ last.op = "scheduleAll"
    /\ last.batch # <<>>
    /\ last.produced = {}
    /\ scheduled_slots # {}

====
